---- MODULE Spec2Model ----
(***************************************************************************)
(* Frame scheduler, swapchain recreation and teardown of the Vulkan        *)
(* tutorial renderer (src/src/lib.rs, src/src/main.rs).                    *)
(*                                                                         *)
(* The host is single threaded; the device executes submitted command      *)
(* buffers asynchronously.  Every public method of Application is one      *)
(* action; the device's progress is the action GpuComplete.  Statuses of   *)
(* device calls are inputs drawn from the sets below.  A call that returns *)
(* Err ends the rendering (main.rs unwraps the result); the Application    *)
(* can still be torn down.                                                 *)
(*                                                                         *)
(* The functions that select a format, a present mode, a memory type, a    *)
(* physical device and the parameters of the swapchain are operators; they *)
(* are also applied on their own to arguments drawn from bounded sets      *)
(* (SpecSelection).                                                        *)
(***************************************************************************)
EXTENDS Integers, Sequences, FiniteSets, TLC

\* ------------------------------------------------------------------ bounds
MaxElapsed == 3          \* API calls per run (ticks of start_time.elapsed())
MaxLifecycleElapsed == 1 \* API calls before teardown in the lifecycle runs
MaxCleanups == 2         \* number of cleanup() calls a caller makes
MaxSurfaceChanges == 1   \* number of times the window system resizes the surface
MaxExtent == 2           \* largest width or height a surface reports
MaxFormats == 3          \* longest list of surface formats
MaxModes == 3            \* longest list of present modes
MaxMemTypes == 4         \* entries of memory_types (VK_MAX_MEMORY_TYPES, scaled)
MaxDevices == 3          \* most physical devices enumerated
MaxFamilies == 2         \* most queue families of a physical device
MaxImageCount == 3       \* largest min_image_count a surface reports

\* --------------------------------------------------------- program constants
MAX_FRAMES_IN_FLIGHT == 2

Slots == 0 .. (MAX_FRAMES_IN_FLIGHT - 1)

\* vk::Extent2D
Extent2D(width, height) == [width |-> width, height |-> height]

\* the extents the surface of the running renderer takes
Extents == {Extent2D(2, 1), Extent2D(1, 1)}

\* std::u32::MAX in the scale of the model: the value above every width or
\* height a surface reports
U32_MAX == MaxExtent + 1

\* vk::Format, vk::ColorSpaceKHR, vk::SurfaceFormatKHR
B8G8R8A8_SRGB == "B8G8R8A8_SRGB"
R8G8B8A8_UNORM == "R8G8B8A8_UNORM"
SRGB_NONLINEAR == "SRGB_NONLINEAR"
EXTENDED_SRGB_LINEAR == "EXTENDED_SRGB_LINEAR"

SurfaceFormatKHR(format, color_space) == [format |-> format, color_space |-> color_space]

\* vk::PresentModeKHR
MAILBOX == "MAILBOX"
FIFO == "FIFO"
IMMEDIATE == "IMMEDIATE"

\* vk::SharingMode
EXCLUSIVE == "EXCLUSIVE"
CONCURRENT == "CONCURRENT"

\* the format lists the surface of the running renderer reports
SurfaceFormatLists ==
    {<<SurfaceFormatKHR(R8G8B8A8_UNORM, SRGB_NONLINEAR),
       SurfaceFormatKHR(B8G8R8A8_SRGB, SRGB_NONLINEAR)>>,
     <<SurfaceFormatKHR(R8G8B8A8_UNORM, SRGB_NONLINEAR)>>}

\* ------------------------------------------------------------ device status
SUCCESS == "SUCCESS"
SUBOPTIMAL_KHR == "SUBOPTIMAL_KHR"
ERROR_OUT_OF_DATE_KHR == "ERROR_OUT_OF_DATE_KHR"
NONE == "NONE"

\* error codes a device call can fail with, other than out-of-date
ErrorCodes == {"ERROR_DEVICE_LOST", "ERROR_OUT_OF_DEVICE_MEMORY"}

\* vkAcquireNextImageKHR / vkQueuePresentKHR as wrapped by ash:
\* SUCCESS -> Ok(.., false), SUBOPTIMAL_KHR -> Ok(.., true), other -> Err(code)
SurfaceStatus == {SUCCESS, SUBOPTIMAL_KHR, ERROR_OUT_OF_DATE_KHR} \cup ErrorCodes

CallStatus == {SUCCESS} \cup ErrorCodes

IsErr(s) == s \in ErrorCodes \cup {ERROR_OUT_OF_DATE_KHR}

\* impl From<vk::Result> for AppError
AppErrorFromUnknown(value) == [error_type |-> "VulkanError", code |-> "ERROR_UNKNOWN"]
AppErrorFrom(value) == [error_type |-> "VulkanError", code |-> value]

Ok == [error_type |-> "Ok", code |-> SUCCESS]

\* a value returned in Ok(..), and AppError::new(error_type)
OkOf(value) == [error_type |-> "Ok", value |-> value]

AppErrorNew(error_type) == [error_type |-> error_type]

VARIABLES
    current_frame,            \* Application.current_frame
    resize_flag,              \* Application.resize_flag
    in_flight_fences,         \* slot -> TRUE when the fence is signaled
    uniform_buffers,          \* slot -> contents of the mapped uniform buffer
    swapchain,                \* [id, extent, image_format] of Application.swapchain
    swapchain_frame_buffers,  \* Application.swapchain_frame_buffers, a framebuffer per image view
    live_swapchains,          \* swapchain handles created and not destroyed
    live_framebuffers,        \* framebuffer sets created and not destroyed
    next_handle,              \* next fresh handle the device hands out
    graphics_queue,           \* submissions the device has not finished, in order
    device_reads,             \* uniform data read by the draws the device executed in the last step
    surface_extent,           \* current extent of the surface (window system)
    surface_formats,          \* the formats the surface reports, in order
    surface_changes,          \* number of surface size changes so far
    elapsed,                  \* start_time.elapsed(), one tick per API call
    phase,                    \* "running", "failed" (a call returned Err: the caller
                              \* stops drawing), "cleaned" (cleanup returned), "exited"
    cleanups,                 \* number of cleanup() calls
    mem,                      \* allocation -> [allocated, bound, freed] counts
    vlayers,                  \* cargo feature "vlayers"
    trace,                    \* device calls made by the last API call, in order
    last,                     \* the last API call: op, inputs, state before, return value
    recreate_log,             \* every cleanup_swapchain+create done by recreate_swapchain
    presents,                 \* number of queue_present calls that returned Ok
    resize_log,               \* value of draws at each request_resize call
    draws,                    \* number of draw_frame calls made
    statuses,                 \* every status a device call has returned so far
    semaphores,               \* semaphore -> the signal operation pending on it
    descriptor_sets,          \* slot -> binding -> the resource the set points at
    present_requests,         \* presentation requests whose semaphore wait is still to come
    given,                    \* the arguments of a function applied on its own
    result                    \* what that function returned, once it is applied

vars == <<current_frame, resize_flag, in_flight_fences, uniform_buffers, swapchain,
          swapchain_frame_buffers, live_swapchains, live_framebuffers, next_handle,
          graphics_queue, device_reads, surface_extent, surface_formats,
          surface_changes, elapsed,
          phase, cleanups, mem, vlayers, trace, last, recreate_log, presents,
          resize_log, draws, statuses, semaphores, descriptor_sets,
          present_requests, given, result>>

\* the whole state as one record, so that methods are operators World -> World
World ==
    [current_frame |-> current_frame, resize_flag |-> resize_flag,
     in_flight_fences |-> in_flight_fences, uniform_buffers |-> uniform_buffers,
     swapchain |-> swapchain, swapchain_frame_buffers |-> swapchain_frame_buffers,
     live_swapchains |-> live_swapchains, live_framebuffers |-> live_framebuffers,
     next_handle |-> next_handle, graphics_queue |-> graphics_queue,
     device_reads |-> device_reads, surface_extent |-> surface_extent,
     surface_formats |-> surface_formats,
     surface_changes |-> surface_changes, elapsed |-> elapsed, phase |-> phase,
     cleanups |-> cleanups, mem |-> mem, vlayers |-> vlayers, trace |-> trace,
     last |-> last, recreate_log |-> recreate_log, presents |-> presents,
     resize_log |-> resize_log, draws |-> draws, statuses |-> statuses,
     semaphores |-> semaphores, descriptor_sets |-> descriptor_sets,
     present_requests |-> present_requests, given |-> given, result |-> result]

Becomes(w) ==
    /\ current_frame' = w.current_frame
    /\ resize_flag' = w.resize_flag
    /\ in_flight_fences' = w.in_flight_fences
    /\ uniform_buffers' = w.uniform_buffers
    /\ swapchain' = w.swapchain
    /\ swapchain_frame_buffers' = w.swapchain_frame_buffers
    /\ live_swapchains' = w.live_swapchains
    /\ live_framebuffers' = w.live_framebuffers
    /\ next_handle' = w.next_handle
    /\ graphics_queue' = w.graphics_queue
    /\ device_reads' = w.device_reads
    /\ surface_extent' = w.surface_extent
    /\ surface_formats' = w.surface_formats
    /\ surface_changes' = w.surface_changes
    /\ elapsed' = w.elapsed
    /\ phase' = w.phase
    /\ cleanups' = w.cleanups
    /\ mem' = w.mem
    /\ vlayers' = w.vlayers
    /\ trace' = w.trace
    /\ last' = w.last
    /\ recreate_log' = w.recreate_log
    /\ presents' = w.presents
    /\ resize_log' = w.resize_log
    /\ draws' = w.draws
    /\ statuses' = w.statuses
    /\ semaphores' = w.semaphores
    /\ descriptor_sets' = w.descriptor_sets
    /\ present_requests' = w.present_requests
    /\ given' = w.given
    /\ result' = w.result

\* a device call is made: it is appended to the trace of the running API call
Call(w, name) == [w EXCEPT !.trace = Append(@, name)]


\* the statuses an input reports
Reported(in) ==
    ({in.wait, in.acquire, in.reset_fences, in.reset_command_buffer, in.record, in.submit,
      in.present, in.recreate.idle, in.recreate.families, in.recreate.create,
      in.recreate.framebuffers}) \ {"NONE"}

\* return of an API call.  An Err ends the run of the renderer: main.rs
\* unwraps the result of draw_frame, so the process panics.
Return(pre, post, op, in, r) ==
    [post EXCEPT !.last = [op |-> op, at |-> post.elapsed, frame |-> pre.current_frame,
                           flag |-> pre.resize_flag, in |-> in, ret |-> r],
                 !.statuses = @ \cup Reported(in),
                 !.phase = IF r = Ok THEN @ ELSE "failed"]

\* entry of an API call: one tick of the clock, a fresh trace
Enter(w) == [w EXCEPT !.elapsed = @ + 1, !.trace = <<>>]

\* --------------------------------------------------------------- allocations
Allocations ==
    {<<"texture_staging", 0>>, <<"texture_image", 0>>, <<"vertex_staging", 0>>,
     <<"vertex_buffer", 0>>, <<"index_staging", 0>>, <<"index_buffer", 0>>}
    \cup {<<"uniform_buffer", k>> : k \in Slots}

\* vkAllocateMemory, vkBind*Memory, vkFreeMemory
allocate_memory(m, a) == [m EXCEPT ![a].allocated = @ + 1]

bind_memory(m, a) == [m EXCEPT ![a].bound = @ + 1]

free_memory(m, a) == [m EXCEPT ![a].freed = @ + 1]

\* ------------------------------------------------------ Application::create
\* vk::ImageLayout and vk::PipelineStageFlags
UNDEFINED == "UNDEFINED"
TRANSFER_DST_OPTIMAL == "TRANSFER_DST_OPTIMAL"
SHADER_READ_ONLY_OPTIMAL == "SHADER_READ_ONLY_OPTIMAL"
TOP_OF_PIPE == "TOP_OF_PIPE"
TRANSFER == "TRANSFER"
FRAGMENT_SHADER == "FRAGMENT_SHADER"
COLOR_ATTACHMENT_OUTPUT == "COLOR_ATTACHMENT_OUTPUT"

\* A construction in progress is a record c:
\*   in       what the environment does: the fallible call that fails (0: none)
\*            and its status, whether the device runs a submission at once or
\*            only when the host waits for it, the cargo feature vlayers
\*   n        number of fallible calls made so far
\*   ret      Ok until a call fails, then the error `?` returns from create
\*   trace    the calls made, in order, and the completions of the device
\*   live     the objects created and not destroyed
\*   mem      allocation -> [allocated, bound, freed] counts
\*   recording, queue   commands recorded in the one-shot command buffer, and
\*            commands submitted that the device has not executed
\*   executed the commands the device has executed, with what they found
\*   contents what each buffer or image holds
\*   layout   layout of the texture image
\*   descriptor_sets   slot -> binding -> the resource the set points at
NoAllocation == <<"none", 0>>

NoResource ==
    [descriptor_type |-> "none", buffer |-> NoAllocation, image_view |-> "none",
     sampler |-> "none", image_layout |-> "none"]

Constructing(in) ==
    [in |-> in, n |-> 0, ret |-> Ok, trace |-> <<>>, live |-> {},
     mem |-> [a \in Allocations |-> [allocated |-> 0, bound |-> 0, freed |-> 0]],
     recording |-> <<>>, queue |-> <<>>, executed |-> <<>>,
     contents |-> [a \in Allocations |-> "none"], layout |-> "none",
     descriptor_sets |-> [i \in Slots |-> [b \in {0, 1} |-> NoResource]]]

Failed(c) == c.ret.error_type # "Ok"

\* a call followed by `?`: made only if no earlier call failed; the call
\* numbered in.fail returns err and ends the construction
Fallible(c, name, err) ==
    IF Failed(c) THEN c
    ELSE IF c.n + 1 = c.in.fail
         THEN [c EXCEPT !.n = @ + 1, !.trace = Append(@, name), !.ret = err]
         ELSE [c EXCEPT !.n = @ + 1, !.trace = Append(@, name)]

\* a device call followed by `?`
Vk(c, name) == Fallible(c, name, AppErrorFrom(c.in.status))

\* a call that returns no result
Infallible(c, name) == IF Failed(c) THEN c ELSE [c EXCEPT !.trace = Append(@, name)]

\* vkCreate* / vkAllocate* followed by `?`, and vkDestroy* / vkFree*
Live(c, objects) == IF Failed(c) THEN c ELSE [c EXCEPT !.live = @ \cup objects]

Creates(c, name, objects) == Live(Vk(c, name), objects)

Destroys(c, name, objects) ==
    IF Failed(c) THEN c ELSE [Infallible(c, name) EXCEPT !.live = @ \ objects]

Buffer(a) == <<"buffer:" \o a[1], a[2]>>

Image(a) == <<"image:" \o a[1], a[2]>>

Memory(a) == <<"memory:" \o a[1], a[2]>>

\* what a successful allocate_memory, bind_*_memory and free_memory leave
Allocated(c, a) == IF Failed(c) THEN c ELSE [c EXCEPT !.mem = allocate_memory(@, a)]

Bound(c, a) == IF Failed(c) THEN c ELSE [c EXCEPT !.mem = bind_memory(@, a)]

Freed(c, a) == IF Failed(c) THEN c ELSE [c EXCEPT !.mem = free_memory(@, a)]

\* the layout an image is in, and what a write through a mapping leaves
InLayout(c, layout) == IF Failed(c) THEN c ELSE [c EXCEPT !.layout = layout]

Written(c, a, data) == IF Failed(c) THEN c ELSE [c EXCEPT !.contents[a] = data]

\* create_buffer: the buffer, a memory type, the allocation, the binding
create_buffer(c, a) ==
    LET c1 == Creates(c, "create_buffer:" \o a[1], {Buffer(a)})
        c2 == Fallible(c1, "find_memory_type", AppErrorNew("NoSuitableMemType"))
        c3 == Creates(c2, "allocate_memory:" \o a[1], {Memory(a)})
    IN Bound(Vk(Allocated(c3, a), "bind_buffer_memory:" \o a[1]), a)

\* create_image: the same for an image, created in layout UNDEFINED
create_image(c, a) ==
    LET c1 == Creates(c, "create_image:" \o a[1], {Image(a)})
        c2 == Fallible(InLayout(c1, UNDEFINED), "find_memory_type",
                       AppErrorNew("NoSuitableMemType"))
        c3 == Creates(c2, "allocate_memory:" \o a[1], {Memory(a)})
    IN Bound(Vk(Allocated(c3, a), "bind_image_memory:" \o a[1]), a)

\* map_memory, ptr::copy of the data, unmap_memory
fill(c, a, data) ==
    Infallible(Written(Vk(c, "map_memory:" \o a[1]), a, data), "unmap_memory:" \o a[1])

\* destroy_buffer and free_memory of a staging buffer
destroy_staging(c, a) ==
    Freed(Destroys(Destroys(c, "destroy_buffer:" \o a[1], {Buffer(a)}),
                   "free_memory:" \o a[1], {Memory(a)}), a)

\* a command of a one-shot command buffer
Command(cmd, src, dst, old_layout, new_layout, src_stage, dst_stage) ==
    [cmd |-> cmd, src |-> src, dst |-> dst, old_layout |-> old_layout,
     new_layout |-> new_layout, src_stage |-> src_stage, dst_stage |-> dst_stage]

Tag(e) ==
    IF e.cmd = "pipeline_barrier" THEN e.cmd \o ":" \o e.new_layout
    ELSE e.cmd \o ":" \o e.src[1]

\* what a transfer reads from a buffer: its contents, or whatever is there
\* once the memory has been freed
ReadBy(c, a) == IF Memory(a) \in c.live THEN c.contents[a] ELSE "freed"

\* the device executes the oldest command of the queue
DeviceExecute(c) ==
    LET e == Head(c.queue)
        c1 == [c EXCEPT !.queue = Tail(@), !.trace = Append(@, "device:" \o Tag(e)),
                        !.executed = Append(@, [command |-> e, layout |-> c.layout,
                                                read |-> IF e.cmd = "pipeline_barrier"
                                                         THEN "none" ELSE ReadBy(c, e.src)])]
    IN IF e.cmd = "pipeline_barrier" THEN [c1 EXCEPT !.layout = e.new_layout]
       ELSE [c1 EXCEPT !.contents[e.dst] = ReadBy(c, e.src)]

RECURSIVE DeviceDrain(_)
DeviceDrain(c) == IF c.queue = <<>> THEN c ELSE DeviceDrain(DeviceExecute(c))

OneShot == {<<"command_buffer:one_shot", 0>>}

\* a command buffer that has been begun holds no command
Begun(c) == IF Failed(c) THEN c ELSE [c EXCEPT !.recording = <<>>]

\* begin_singe_time_command: a fresh primary command buffer, begun
begin_singe_time_command(c) ==
    Begun(Vk(Creates(c, "allocate_command_buffers:one_shot", OneShot),
             "begin_command_buffer:one_shot"))

\* vkCmd*: the command is recorded
cmd(c, e) ==
    IF Failed(c) THEN c ELSE [Infallible(c, "cmd_" \o e.cmd) EXCEPT !.recording = Append(@, e)]

\* a submission is queued; the device may run it at once or later
Submitted(c) ==
    IF Failed(c) THEN c
    ELSE IF c.in.eager THEN DeviceDrain([c EXCEPT !.queue = @ \o c.recording])
    ELSE [c EXCEPT !.queue = @ \o c.recording]

\* vkQueueSubmit of the one-shot command buffer, without a fence
submit_one_shot(c) == Submitted(Vk(c, "queue_submit:" \o Tag(c.recording[1])))

\* vkQueueWaitIdle: returns Ok once the queue has executed every submission
queue_wait_idle_returns_at_once(c) == Vk(c, "queue_wait_idle")
Idle(c) == IF Failed(c) THEN c ELSE DeviceDrain(c)

queue_wait_idle(c) == Idle(Vk(c, "queue_wait_idle"))

\* end_single_time_command: end, submit, wait for the queue, free
end_single_time_command(c) ==
    IF Failed(c) THEN c
    ELSE Destroys(queue_wait_idle(submit_one_shot(Vk(c, "end_command_buffer:one_shot"))),
                  "free_command_buffers:one_shot", OneShot)

\* copy_buffer
copy_buffer(c, src, dst) ==
    end_single_time_command(
        cmd(begin_singe_time_command(c),
            Command("copy_buffer", src, dst, "none", "none", "none", "none")))

\* copy_buffer_to_image: the image is named in layout TRANSFER_DST_OPTIMAL
copy_buffer_to_image(c, buffer, image) ==
    end_single_time_command(
        cmd(begin_singe_time_command(c),
            Command("copy_buffer_to_image", buffer, image, TRANSFER_DST_OPTIMAL,
                    TRANSFER_DST_OPTIMAL, "none", "none")))

\* the stage masks chosen by the match on (old_layout, new_layout)
StageMasks(old_layout, new_layout) ==
    IF <<old_layout, new_layout>> = <<UNDEFINED, TRANSFER_DST_OPTIMAL>>
    THEN [src_stage |-> TOP_OF_PIPE, dst_stage |-> TRANSFER]
    ELSE IF <<old_layout, new_layout>> = <<TRANSFER_DST_OPTIMAL, SHADER_READ_ONLY_OPTIMAL>>
    THEN [src_stage |-> TRANSFER, dst_stage |-> FRAGMENT_SHADER]
    ELSE [src_stage |-> "empty", dst_stage |-> "empty"]

\* transition_image_layout: one image memory barrier in a one-shot command buffer
transition_image_layout(c, image, old_layout, new_layout) ==
    LET s == StageMasks(old_layout, new_layout)
    IN end_single_time_command(
           cmd(begin_singe_time_command(c),
               Command("pipeline_barrier", image, image, old_layout, new_layout,
                       s.src_stage, s.dst_stage)))

\* the value of the last of the stages of a function, computed in order
Last(stages) == stages[Len(stages)]

\* create_buffer_with_data
create_buffer_with_data(c, staging, buffer, data) ==
    LET c1 == create_buffer(fill(create_buffer(c, staging), staging, data), buffer)
        c2 == copy_buffer(c1, staging, buffer)
    IN Last(<<c1, c2, destroy_staging(c2, staging)>>)

\* create_texture_image
create_texture_image_copy_first(c) ==
    LET staging == <<"texture_staging", 0>>
        image == <<"texture_image", 0>>
        c1 == Fallible(c, "Reader::open", AppErrorNew("IoError"))
        c2 == create_image(fill(create_buffer(c1, staging), staging, "texture"), image)
        c3 == copy_buffer_to_image(c2, staging, image)
        c4 == transition_image_layout(c3, image, UNDEFINED, TRANSFER_DST_OPTIMAL)
        c5 == transition_image_layout(c4, image, TRANSFER_DST_OPTIMAL,
                                      SHADER_READ_ONLY_OPTIMAL)
    IN Last(<<c2, c3, c4, c5, destroy_staging(c5, staging)>>)
create_texture_image(c) ==
    LET staging == <<"texture_staging", 0>>
        image == <<"texture_image", 0>>
        c1 == Fallible(c, "Reader::open", AppErrorNew("IoError"))
        c2 == create_image(fill(create_buffer(c1, staging), staging, "texture"), image)
        c3 == transition_image_layout(c2, image, UNDEFINED, TRANSFER_DST_OPTIMAL)
        c4 == copy_buffer_to_image(c3, staging, image)
        c5 == transition_image_layout(c4, image, TRANSFER_DST_OPTIMAL,
                                      SHADER_READ_ONLY_OPTIMAL)
    IN Last(<<c2, c3, c4, c5, destroy_staging(c5, staging)>>)

\* create_uniform_buffers: a buffer per slot, left mapped
RECURSIVE create_uniform_buffers(_, _)
create_uniform_buffers(c, n) ==
    IF n = 0 THEN c
    ELSE Vk(create_buffer(create_uniform_buffers(c, n - 1), <<"uniform_buffer", n - 1>>),
            "map_memory:uniform_buffer")

\* Vec::push: the vector moves to a larger buffer when it is full, and the
\* addresses of its elements change
push(v, x) ==
    IF Len(v.items) = v.capacity
    THEN [items |-> Append(v.items, x), buffer |-> v.buffer + 1,
          capacity |-> IF v.capacity = 0 THEN 4 ELSE 2 * v.capacity]
    ELSE [v EXCEPT !.items = Append(@, x)]

EmptyVec == [items |-> <<>>, buffer |-> 0, capacity |-> 0]

\* &infos[i] as *const _
AddressOf(v, i) == [buffer |-> v.buffer, index |-> i]

\* what the device reads through a pointer into a vector
Deref(v, p) == IF p.buffer = v.buffer THEN v.items[p.index] ELSE NoResource

\* the body of the loop of create_descriptor_sets for set i
descriptor_writes_shared_buffer(d, i) ==
    LET buffer_infos == push(d.buffer_infos,
                             [NoResource EXCEPT !.descriptor_type = "UNIFORM_BUFFER",
                                                !.buffer = <<"uniform_buffer", 0>>])
        image_infos == push(d.image_infos,
                            [NoResource EXCEPT !.descriptor_type = "COMBINED_IMAGE_SAMPLER",
                                               !.image_layout = SHADER_READ_ONLY_OPTIMAL,
                                               !.image_view = "texture_image_view",
                                               !.sampler = "texture_sampler"])
    IN [buffer_infos |-> buffer_infos, image_infos |-> image_infos,
        descriptor_writes |-> d.descriptor_writes \o
            <<[dst_set |-> i, dst_binding |-> 0, from |-> "buffer_infos",
               p_info |-> AddressOf(buffer_infos, i + 1)],
              [dst_set |-> i, dst_binding |-> 1, from |-> "image_infos",
               p_info |-> AddressOf(image_infos, i + 1)]>>]
descriptor_writes(d, i) ==
    LET buffer_infos == push(d.buffer_infos,
                             [NoResource EXCEPT !.descriptor_type = "UNIFORM_BUFFER",
                                                !.buffer = <<"uniform_buffer", i>>])
        image_infos == push(d.image_infos,
                            [NoResource EXCEPT !.descriptor_type = "COMBINED_IMAGE_SAMPLER",
                                               !.image_layout = SHADER_READ_ONLY_OPTIMAL,
                                               !.image_view = "texture_image_view",
                                               !.sampler = "texture_sampler"])
    IN [buffer_infos |-> buffer_infos, image_infos |-> image_infos,
        descriptor_writes |-> d.descriptor_writes \o
            <<[dst_set |-> i, dst_binding |-> 0, from |-> "buffer_infos",
               p_info |-> AddressOf(buffer_infos, i + 1)],
              [dst_set |-> i, dst_binding |-> 1, from |-> "image_infos",
               p_info |-> AddressOf(image_infos, i + 1)]>>]

RECURSIVE descriptor_writes_upto(_)
descriptor_writes_upto(n) ==
    IF n = 0
    THEN [buffer_infos |-> EmptyVec, image_infos |-> EmptyVec, descriptor_writes |-> <<>>]
    ELSE descriptor_writes(descriptor_writes_upto(n - 1), n - 1)

\* vkUpdateDescriptorSets: every write of the call is applied, in order
RECURSIVE update_descriptor_sets(_, _, _)
update_descriptor_sets(sets, d, j) ==
    IF j > Len(d.descriptor_writes) THEN sets
    ELSE LET wr == d.descriptor_writes[j]
             info == IF wr.from = "buffer_infos" THEN Deref(d.buffer_infos, wr.p_info)
                     ELSE Deref(d.image_infos, wr.p_info)
         IN update_descriptor_sets([sets EXCEPT ![wr.dst_set][wr.dst_binding] = info], d, j + 1)

\* create_descriptor_sets
Updated(c) ==
    IF Failed(c) THEN c
    ELSE [Infallible(c, "update_descriptor_sets") EXCEPT
             !.descriptor_sets =
                 update_descriptor_sets(@, descriptor_writes_upto(MAX_FRAMES_IN_FLIGHT), 1)]

create_descriptor_sets(c) ==
    Updated(Creates(c, "allocate_descriptor_sets", {<<"descriptor_set", i>> : i \in Slots}))

\* create_sync_objects: two semaphores and a signaled fence per slot
RECURSIVE create_sync_objects(_, _)
create_sync_objects(c, n) ==
    IF n = 0 THEN c
    ELSE LET c1 == create_sync_objects(c, n - 1)
             c2 == Creates(c1, "create_semaphore:image_avaible",
                           {<<"semaphore:image_avaible", n - 1>>})
             c3 == Creates(c2, "create_semaphore:render_done",
                           {<<"semaphore:render_done", n - 1>>})
         IN Creates(c3, "create_fence", {<<"fence", n - 1>>})

\* create_graphics_pipeline
create_graphics_pipeline(c) ==
    LET c1 == Creates(c, "create_render_pass", {<<"render_pass", 0>>})
        c2 == Creates(c1, "create_shader_module:vertex", {<<"shader_module", 0>>})
        c3 == Creates(c2, "create_shader_module:fragment", {<<"shader_module", 1>>})
        c4 == Creates(c3, "create_descriptor_set_layout", {<<"descriptor_set_layout", 0>>})
        c5 == Creates(c4, "create_pipeline_layout", {<<"pipeline_layout", 0>>})
        c6 == Creates(c5, "create_graphics_pipelines", {<<"pipeline", 0>>})
    IN Destroys(Destroys(c6, "destroy_shader_module:vertex", {<<"shader_module", 0>>}),
                "destroy_shader_module:fragment", {<<"shader_module", 1>>})

\* Application::create, every step followed by `?`
create(in) ==
    LET c0 == Creates(Vk(Fallible(Fallible(Constructing(in),
                             "Entry::load", AppErrorNew("VulkanLoadingError")),
                             "display_handle", AppErrorNew("HandleError")),
                             "enumerate_required_extensions"),
                      "create_instance", {<<"instance", 0>>})
        c1 == Creates(Fallible(Fallible(
                          IF in.vlayers
                          THEN Creates(c0, "create_debug_utils_messenger",
                                       {<<"debug_messenger", 0>>})
                          ELSE c0,
                          "display_handle", AppErrorNew("HandleError")),
                          "window_handle", AppErrorNew("HandleError")),
                      "create_surface", {<<"surface", 0>>})
        c2 == Creates(Creates(Creates(create_graphics_pipeline(
                  Creates(Vk(Creates(Vk(Creates(
                      Fallible(Vk(c1, "enumerate_physical_devices"),
                               "pick_physical_device", AppErrorNew("NoSuitableDevice")),
                      "create_device", {<<"device", 0>>}),
                      "query_swapchain_support"),
                      "create_swapchain", {<<"swapchain", 0>>}),
                      "get_swapchain_images"),
                      "create_image_view:swapchain", {<<"image_view:swapchain", 0>>})),
                  "create_framebuffer", {<<"framebuffer", 0>>}),
                  "create_command_pool", {<<"command_pool", 0>>}),
                  "allocate_command_buffers", {<<"command_buffer", k>> : k \in Slots})
        c3 == Creates(Creates(create_texture_image(c2),
                  "create_image_view:texture", {<<"image_view:texture", 0>>}),
                  "create_sampler", {<<"sampler", 0>>})
        c4 == create_buffer_with_data(
                  create_buffer_with_data(c3, <<"vertex_staging", 0>>, <<"vertex_buffer", 0>>,
                                          "VERTICES"),
                  <<"index_staging", 0>>, <<"index_buffer", 0>>, "INDICES")
    IN Last(<<c0, c1, c2, c3, c4,
              create_sync_objects(
                  create_descriptor_sets(
                      Creates(create_uniform_buffers(c4, MAX_FRAMES_IN_FLIGHT),
                              "create_descriptor_pool", {<<"descriptor_pool", 0>>})),
                  MAX_FRAMES_IN_FLIGHT)>>)

\* the inputs under which no call fails, and the Application then returned
Unfailing(v) == [fail |-> 0, status |-> SUCCESS, eager |-> FALSE, vlayers |-> v]

Returned == [v \in BOOLEAN |-> create(Unfailing(v))]

\* the allocations made by Application::create
create_mem == Returned[FALSE].mem


\* ------------------------------------------------------------------ device
\* image_avaible_semaphores[k] and render_done_semaphores[k]
image_avaible(k) == <<"image_avaible", k>>

render_done(k) == <<"render_done", k>>

Semaphores == {image_avaible(k) : k \in Slots} \cup {render_done(k) : k \in Slots}

\* the signal operation pending on a semaphore: none, or the one of the acquire
\* or of the submission of a cycle
Unsignaled == [by |-> "none", cycle |-> 0]

\* no semaphore named yet
NoSemaphore == <<"none", 0>>

SignaledBy(by, cycle) == [by |-> by, cycle |-> cycle]

\* create_render_pass: the transition of the attachment out of UNDEFINED, the
\* first write of the render pass, waits for the stages of src_stage_mask of
\* earlier commands and of the semaphore wait
subpass_dependency ==
    [src_subpass |-> "SUBPASS_EXTERNAL", dst_subpass |-> 0,
     src_stage_mask |-> COLOR_ATTACHMENT_OUTPUT, dst_stage_mask |-> COLOR_ATTACHMENT_OUTPUT]

\* the device finishes the oldest submission: the draw reads the uniform
\* buffer its descriptor set points at, then the submission's fence signals
Execute(w) ==
    LET e == Head(w.graphics_queue)
        bound == w.descriptor_sets[e.descriptor_set][0].buffer
        signaled == [w.semaphores EXCEPT ![e.wait_semaphore] = Unsignaled]
    IN [w EXCEPT !.graphics_queue = Tail(@),
                 !.device_reads = Append(@, [slot |-> e.slot, cycle |-> e.cycle,
                                             got |-> w.uniform_buffers[bound[2]],
                                             submission |-> e,
                                             after |-> IF subpass_dependency.src_stage_mask
                                                          = e.wait_dst_stage_mask
                                                       THEN w.semaphores[e.wait_semaphore]
                                                       ELSE Unsignaled,
                                             presented_after |-> signaled[e.present_wait]]),
                 !.semaphores = [signaled EXCEPT ![e.present_wait] = Unsignaled],
                 !.in_flight_fences[e.fence] = TRUE]

\* the device finishes the oldest submission and signals its semaphore; the
\* presentation request queued after it has not waited for that semaphore yet
ExecuteSubmission(w) ==
    LET e == Head(w.graphics_queue)
    IN [Execute(w) EXCEPT
           !.semaphores[e.present_wait] = w.semaphores[e.present_wait],
           !.present_requests = Append(@, [slot |-> e.slot, cycle |-> e.cycle,
                                           wait_semaphore |-> e.present_wait,
                                           swapchain |-> e.swapchain])]

\* the presentation engine waits for the semaphore of the oldest request
Present(w) ==
    [w EXCEPT !.present_requests = Tail(@),
              !.semaphores[Head(w.present_requests).wait_semaphore] = Unsignaled]

RECURSIVE Drain(_)
Drain(w) == IF w.graphics_queue = <<>> THEN w ELSE Drain(Execute(w))

\* vkDeviceWaitIdle: returns once every submission has completed
device_wait_idle_returns_at_once(w) == Call(w, "device_wait_idle")
device_wait_idle(w) == Drain([Call(w, "device_wait_idle") EXCEPT !.device_reads = <<>>])

\* vkWaitForFences(.., true, u64::MAX): success is returned only once the
\* fence is signaled; an error can be returned at any time
wait_for_fences_no_wait(w, k, status) == TRUE
wait_for_fences(w, k, status) == (status = SUCCESS) => w.in_flight_fences[k]

\* ------------------------------------------------------ swapchain recreation
\* the handles a Vec holds
Handles(vec) == {vec[i] : i \in DOMAIN vec}

cleanup_swapchain_chain_first(w) ==
    LET w1 == Call(Call(Call(w, "destroy_swapchain"), "destroy_framebuffer"),
                   "destroy_image_view:swapchain")
    IN [w1 EXCEPT !.live_framebuffers = @ \ Handles(w.swapchain_frame_buffers),
                  !.live_swapchains = @ \ {w.swapchain.id}]
cleanup_swapchain_and_fences(w) ==
    LET w1 == Call(Call(Call(Call(w, "destroy_framebuffer"), "destroy_image_view:swapchain"),
                        "destroy_swapchain"), "destroy_fence")
    IN [w1 EXCEPT !.live_framebuffers = @ \ Handles(w.swapchain_frame_buffers),
                  !.live_swapchains = @ \ {w.swapchain.id}]
cleanup_swapchain(w) ==
    LET w1 == Call(Call(Call(w, "destroy_framebuffer"), "destroy_image_view:swapchain"),
                   "destroy_swapchain")
    IN [w1 EXCEPT !.live_framebuffers = @ \ Handles(w.swapchain_frame_buffers),
                  !.live_swapchains = @ \ {w.swapchain.id}]

\* a panic (assert!, todo!, unwrap) in place of a value
Panicked(why) == [panic |-> why]

IsPanic(v) == "panic" \in DOMAIN v

\* choose_swap_surface_format: the loop over avaible_formats from index i on
RECURSIVE choose_swap_surface_format_from(_, _)
choose_swap_surface_format_from(avaible_formats, i) ==
    IF i > Len(avaible_formats) THEN avaible_formats[1]
    ELSE IF /\ avaible_formats[i].format = B8G8R8A8_SRGB
            /\ avaible_formats[i].color_space = SRGB_NONLINEAR
         THEN avaible_formats[i]
         ELSE choose_swap_surface_format_from(avaible_formats, i + 1)

choose_swap_surface_format_first(avaible_formats) ==
    IF avaible_formats = <<>> THEN Panicked("assertion failed")
    ELSE avaible_formats[1]
choose_swap_surface_format(avaible_formats) ==
    IF avaible_formats = <<>> THEN Panicked("assertion failed")
    ELSE choose_swap_surface_format_from(avaible_formats, 1)

\* choose_swap_present_mode: the loop over avaible_present_modes from index i on
RECURSIVE choose_swap_present_mode_from(_, _)
choose_swap_present_mode_from(avaible_present_modes, i) ==
    IF i > Len(avaible_present_modes) THEN FIFO
    ELSE IF avaible_present_modes[i] = MAILBOX THEN avaible_present_modes[i]
         ELSE choose_swap_present_mode_from(avaible_present_modes, i + 1)

choose_swap_present_mode_first(avaible_present_modes) ==
    IF avaible_present_modes = <<>> THEN FIFO ELSE avaible_present_modes[1]
choose_swap_present_mode(avaible_present_modes) ==
    choose_swap_present_mode_from(avaible_present_modes, 1)

\* choose_swap_extent: the surface's current extent; todo!() when the surface
\* leaves the extent to the application
choose_swap_extent(capabilities) ==
    IF capabilities.current_extent.width # U32_MAX THEN capabilities.current_extent
    ELSE Panicked("not yet implemented")

\* Ord::clamp
clamp(x, min, max) == IF x < min THEN min ELSE IF x > max THEN max ELSE x

\* the image count create_swapchain asks for
image_count(capabilities) ==
    IF capabilities.max_image_count # 0
    THEN clamp(capabilities.min_image_count + 1, capabilities.min_image_count,
               capabilities.min_image_count)
    ELSE capabilities.min_image_count + 1

\* the sharing mode and queue family indices create_swapchain declares
image_sharing_always_exclusive(indices) ==
    [image_sharing_mode |-> EXCLUSIVE, queue_family_indices |-> <<>>]
image_sharing(indices) ==
    IF indices.graphics_family # indices.present_family
    THEN [image_sharing_mode |-> CONCURRENT,
          queue_family_indices |-> <<indices.graphics_family, indices.present_family>>]
    ELSE [image_sharing_mode |-> EXCLUSIVE, queue_family_indices |-> <<>>]

\* the vk::SwapchainCreateInfoKHR create_swapchain builds, or the panic that
\* ends it
swapchain_create_info(swapchain_support, indices) ==
    LET surface_format == choose_swap_surface_format(swapchain_support.formats)
        present_mode == choose_swap_present_mode(swapchain_support.present_modes)
        extent == choose_swap_extent(swapchain_support.capabilities)
        sharing == image_sharing(indices)
    IN IF IsPanic(surface_format) THEN surface_format
       ELSE IF IsPanic(extent) THEN extent
       ELSE [min_image_count |-> image_count(swapchain_support.capabilities),
             image_format |-> surface_format.format,
             image_color_space |-> surface_format.color_space,
             image_extent |-> extent,
             image_sharing_mode |-> sharing.image_sharing_mode,
             queue_family_indices |-> sharing.queue_family_indices,
             present_mode |-> present_mode]

\* what the surface of the running renderer reports: the window system
\* determines its extent, and one queue family draws and presents
SurfaceCapabilities(extent) ==
    [current_extent |-> extent,
     min_image_extent |-> Extent2D(1, 1),
     max_image_extent |-> Extent2D(MaxExtent, MaxExtent),
     min_image_count |-> 2, max_image_count |-> 0]

query_swapchain_support(w) ==
    [capabilities |-> SurfaceCapabilities(w.surface_extent),
     formats |-> w.surface_formats,
     present_modes |-> <<FIFO>>]

\* the queue families of the device the renderer runs on, as
\* find_queue_families returns them in recreate_swapchain
find_queue_families_of_device == [graphics_family |-> 0, present_family |-> 0]

\* what SwapChainHolder keeps of a swapchain
SwapChainHolder(id, extent, image_format, images) ==
    [id |-> id, extent |-> extent, image_format |-> image_format,
     swapchain_image_views |-> [i \in 1 .. images |-> <<"image_view", id, i - 1>>]]

\* get_swapchain_images: the device creates at least min_image_count images;
\* the device of the model creates one more for a surface of width 1, so that
\* a recreation can change the number of images
get_swapchain_images(min_image_count, image_extent) ==
    IF image_extent.width = 1 THEN min_image_count + 1 ELSE min_image_count

create_swapchain_min_extent(w) ==
    LET support == query_swapchain_support(w)
        info == swapchain_create_info(support, find_queue_families_of_device)
    IN [Call(Call(Call(w, "query_swapchain_support"), "create_swapchain"),
             "create_image_view:swapchain") EXCEPT
           !.swapchain = SwapChainHolder(w.next_handle, support.capabilities.min_image_extent,
                                         info.image_format,
                                         get_swapchain_images(info.min_image_count,
                                                              info.image_extent)),
           !.live_swapchains = @ \cup {w.next_handle},
           !.next_handle = @ + 1]
create_swapchain(w) ==
    LET support == query_swapchain_support(w)
        info == swapchain_create_info(support, find_queue_families_of_device)
    IN [Call(Call(Call(w, "query_swapchain_support"), "create_swapchain"),
             "create_image_view:swapchain") EXCEPT
           !.swapchain = SwapChainHolder(w.next_handle, info.image_extent, info.image_format,
                                         get_swapchain_images(info.min_image_count,
                                                              info.image_extent)),
           !.live_swapchains = @ \cup {w.next_handle},
           !.next_handle = @ + 1]

\* create_frame_buffers: a framebuffer is pushed for every image view of the
\* swapchain, in order
frame_buffers_single(holder) == <<<<"framebuffer", holder.id, 0>>>>
frame_buffers(holder) ==
    [i \in DOMAIN holder.swapchain_image_views |-> <<"framebuffer", holder.id, i - 1>>]

create_frame_buffers_keeps_list(w) ==
    [Call(w, "create_framebuffer") EXCEPT
        !.live_framebuffers = @ \cup Handles(frame_buffers(w.swapchain))]
create_frame_buffers(w) ==
    [Call(w, "create_framebuffer") EXCEPT
        !.swapchain_frame_buffers = frame_buffers(w.swapchain),
        !.live_framebuffers = @ \cup Handles(frame_buffers(w.swapchain))]

\* inputs of recreate_swapchain: the status of each fallible step, NONE for
\* the steps after the first failure
RecreateErrors == {"ERROR_DEVICE_LOST"}

RecreateInputs ==
    {[idle |-> SUCCESS, families |-> SUCCESS, create |-> SUCCESS, framebuffers |-> SUCCESS]}
    \cup {[idle |-> c, families |-> NONE, create |-> NONE, framebuffers |-> NONE] : c \in RecreateErrors}
    \cup {[idle |-> SUCCESS, families |-> c, create |-> NONE, framebuffers |-> NONE] : c \in RecreateErrors}
    \cup {[idle |-> SUCCESS, families |-> SUCCESS, create |-> c, framebuffers |-> NONE] : c \in RecreateErrors}
    \cup {[idle |-> SUCCESS, families |-> SUCCESS, create |-> SUCCESS, framebuffers |-> c] : c \in RecreateErrors}

NoRecreate == [idle |-> NONE, families |-> NONE, create |-> NONE, framebuffers |-> NONE]

\* recreate_swapchain; stage names the caller ("acquire", "present", "direct").
\* Returns the new state and the AppResult.
Visible(sc) == [extent |-> sc.extent, image_format |-> sc.image_format]

recreate_swapchain(w, rc, stage) ==
    IF IsErr(rc.idle) THEN [w |-> Call(w, "device_wait_idle"), ret |-> AppErrorFrom(rc.idle)]
    ELSE
    LET w1 == cleanup_swapchain(device_wait_idle(w))
        w2 == [w1 EXCEPT !.recreate_log =
                  Append(@, [draw |-> w.draws, stage |-> stage, flag |-> w.resize_flag,
                             at |-> w.elapsed, changes |-> w.surface_changes,
                             before |-> Visible(w.swapchain), after |-> Visible(w.swapchain),
                             done |-> FALSE])]
    IN IF IsErr(rc.families)
       THEN [w |-> Call(w2, "find_queue_families"), ret |-> AppErrorFrom(rc.families)]
       ELSE IF IsErr(rc.create)
       THEN [w |-> Call(Call(w2, "find_queue_families"), "query_swapchain_support"),
             ret |-> AppErrorFrom(rc.create)]
       ELSE LET w3 == create_swapchain(Call(w2, "find_queue_families"))
            IN IF IsErr(rc.framebuffers)
               THEN [w |-> Call(w3, "create_framebuffer"), ret |-> AppErrorFrom(rc.framebuffers)]
               ELSE [w |-> [create_frame_buffers(w3) EXCEPT
                               !.recreate_log[Len(w3.recreate_log)].after = Visible(w3.swapchain),
                               !.recreate_log[Len(w3.recreate_log)].done = TRUE],
                     ret |-> Ok]

\* ---------------------------------------------------------------- draw_frame
\* update_uniform_buffer: the transform computed from the elapsed time and the
\* swapchain's aspect ratio is copied into the current slot's mapped buffer
update_uniform_buffer_other_slot(w) ==
    [w EXCEPT !.uniform_buffers[(w.current_frame + 1) % MAX_FRAMES_IN_FLIGHT] =
                  [time |-> w.elapsed, extent |-> w.swapchain.extent]]
update_uniform_buffer(w) ==
    [w EXCEPT !.uniform_buffers[w.current_frame] =
                  [time |-> w.elapsed, extent |-> w.swapchain.extent]]

\* the image index acquire_next_image returned in this cycle: the device of
\* the model hands the images out in turn
image_index(w) == w.elapsed % Len(w.swapchain.swapchain_image_views)

\* vkResetFences
reset_fences_of_every_slot(w, k) ==
    [Call(w, "reset_fences") EXCEPT !.in_flight_fences = [j \in Slots |-> FALSE]]
reset_fences(w, k) == [Call(w, "reset_fences") EXCEPT !.in_flight_fences[k] = FALSE]

\* record_command_buffer: binds descriptor_sets[current_frame] and the
\* framebuffer of the current swapchain; vkQueueSubmit hands the command
\* buffer to the device with the slot's fence
\* the submission waits for image_avaible_semaphores[k] at the color
\* attachment output stage and signals render_done_semaphores[k]
queue_submit_waits_own_signal(w, k) ==
    [Call(w, "queue_submit") EXCEPT
        !.graphics_queue = Append(@, [slot |-> k, fence |-> k, cycle |-> w.elapsed,
                                      command_buffer |-> k, descriptor_set |-> k,
                                      framebuffer |-> w.swapchain_frame_buffers[image_index(w) + 1],
                                      swapchain |-> w.swapchain.id,
                                      render_area |-> w.swapchain.extent,
                                      wait_semaphore |-> render_done(k),
                                      wait_dst_stage_mask |-> COLOR_ATTACHMENT_OUTPUT,
                                      signal_semaphore |-> render_done(k),
                                      present_wait |-> NoSemaphore]),
        !.semaphores[render_done(k)] = SignaledBy("submit", w.elapsed)]
queue_submit_with_other_fence(w, k) ==
    [Call(w, "queue_submit") EXCEPT
        !.graphics_queue = Append(@, [slot |-> k, fence |-> (k + 1) % MAX_FRAMES_IN_FLIGHT,
                                      cycle |-> w.elapsed,
                                      command_buffer |-> k, descriptor_set |-> k,
                                      framebuffer |-> w.swapchain_frame_buffers[image_index(w) + 1],
                                      swapchain |-> w.swapchain.id,
                                      render_area |-> w.swapchain.extent,
                                      wait_semaphore |-> image_avaible(k),
                                      wait_dst_stage_mask |-> COLOR_ATTACHMENT_OUTPUT,
                                      signal_semaphore |-> render_done(k),
                                      present_wait |-> NoSemaphore]),
        !.semaphores[render_done(k)] = SignaledBy("submit", w.elapsed)]
queue_submit(w, k) ==
    [Call(w, "queue_submit") EXCEPT
        !.graphics_queue = Append(@, [slot |-> k, fence |-> k, cycle |-> w.elapsed,
                                      command_buffer |-> k, descriptor_set |-> k,
                                      framebuffer |-> w.swapchain_frame_buffers[image_index(w) + 1],
                                      swapchain |-> w.swapchain.id,
                                      render_area |-> w.swapchain.extent,
                                      wait_semaphore |-> image_avaible(k),
                                      wait_dst_stage_mask |-> COLOR_ATTACHMENT_OUTPUT,
                                      signal_semaphore |-> render_done(k),
                                      present_wait |-> NoSemaphore]),
        !.semaphores[render_done(k)] = SignaledBy("submit", w.elapsed)]

\* vkQueuePresentKHR: the presentation waits for the semaphores the
\* submission signals (wait_semaphore_count, p_wait_semaphores)
queue_present(w, k) ==
    [Call(w, "queue_present") EXCEPT
        !.graphics_queue[Len(w.graphics_queue)].present_wait = render_done(k)]

\* vkAcquireNextImageKHR with image_avaible_semaphores[k]: when an image is
\* returned, the semaphore is signaled once the image can be written
acquire_next_image_signals_on_error(w, k, status) ==
    [Call(w, "acquire_next_image") EXCEPT
        !.semaphores[image_avaible(k)] = SignaledBy("acquire", w.elapsed)]
acquire_next_image(w, k, status) ==
    IF IsErr(status) THEN Call(w, "acquire_next_image")
    ELSE [Call(w, "acquire_next_image") EXCEPT
             !.semaphores[image_avaible(k)] = SignaledBy("acquire", w.elapsed)]

\* self.current_frame = (self.current_frame + 1) % MAX_FRAMES_IN_FLIGHT
next_frame_same(current) == current
next_frame(current) == (current + 1) % MAX_FRAMES_IN_FLIGHT

\* the arm taken by the match on queue_present's result:
\*   Err(OUT_OF_DATE) | Ok(true) | Ok(_) if self.resize_flag => recreate
\*   Err(res) => error,  _ => continue
\* (the guard applies to all three alternatives of the first arm)
PresentArmIgnoresFlag(status, flag) ==
    IF IsErr(status) THEN "error" ELSE "continue"
PresentArmSuboptimalRecreates(status, flag) ==
    IF status = SUBOPTIMAL_KHR \/ (status \in {ERROR_OUT_OF_DATE_KHR, SUCCESS} /\ flag)
    THEN "recreate"
    ELSE IF IsErr(status) THEN "error"
    ELSE "continue"
PresentArmOutOfDateOnly(status, flag) ==
    IF status = ERROR_OUT_OF_DATE_KHR THEN "recreate"
    ELSE IF IsErr(status) THEN "error"
    ELSE "continue"
PresentArm(status, flag) ==
    IF status \in {ERROR_OUT_OF_DATE_KHR, SUBOPTIMAL_KHR, SUCCESS} /\ flag THEN "recreate"
    ELSE IF IsErr(status) THEN "error"
    ELSE "continue"

\* self.resize_flag = false in the recreate arm of the present step
consume_resize_keeps_flag(w) == w
consume_resize(w) == [w EXCEPT !.resize_flag = FALSE]

\* draw_frame from the reset of the fence on (acquire returned an image)
draw_frame_submit(pre, w1, in) ==
    LET k == w1.current_frame IN
    IF IsErr(in.reset_fences)
    THEN Return(pre, Call(w1, "reset_fences"), "draw_frame", in, AppErrorFrom(in.reset_fences))
    ELSE
    LET w2 == reset_fences(w1, k) IN
    IF IsErr(in.reset_command_buffer)
    THEN Return(pre, Call(w2, "reset_command_buffer"), "draw_frame", in,
                AppErrorFrom(in.reset_command_buffer))
    ELSE
    LET w3 == update_uniform_buffer(Call(w2, "reset_command_buffer")) IN
    IF IsErr(in.record)
    THEN Return(pre, Call(w3, "begin_command_buffer"), "draw_frame", in, AppErrorFrom(in.record))
    ELSE
    LET w4 == Call(Call(w3, "begin_command_buffer"), "end_command_buffer") IN
    IF IsErr(in.submit)
    THEN Return(pre, Call(w4, "queue_submit"), "draw_frame", in, AppErrorFrom(in.submit))
    ELSE
    LET w5 == queue_present(queue_submit(w4, k), k)
        w6 == IF IsErr(in.present) THEN w5 ELSE [w5 EXCEPT !.presents = @ + 1]
        arm == PresentArm(in.present, w6.resize_flag)
    IN  IF arm = "recreate"
        THEN LET r == recreate_swapchain(consume_resize(w6), in.recreate, "present")
             IN Return(pre, r.w, "draw_frame", in, r.ret)
        ELSE IF arm = "error"
        THEN Return(pre, w6, "draw_frame", in, AppErrorFrom(in.present))
        ELSE Return(pre, [w6 EXCEPT !.current_frame = next_frame(@)],
                    "draw_frame", in, Ok)

\* the arm taken by the match on acquire_next_image's result:
\*   Ok((v, _)) => continue, Err(OUT_OF_DATE) => recreate, Err(res) => error
AcquireArmOutOfDateIsError(status) ==
    IF IsErr(status) THEN "error" ELSE "continue"
AcquireArm(status) ==
    IF status = ERROR_OUT_OF_DATE_KHR THEN "recreate"
    ELSE IF IsErr(status) THEN "error"
    ELSE "continue"

draw_frame(pre, in) ==
    LET w0 == Call([Enter(pre) EXCEPT !.draws = @ + 1], "wait_for_fences") IN
    IF IsErr(in.wait) THEN Return(pre, w0, "draw_frame", in, AppErrorFrom(in.wait))
    ELSE
    LET w1 == acquire_next_image(w0, pre.current_frame, in.acquire)
        arm == AcquireArm(in.acquire)
    IN  IF arm = "recreate"
        THEN LET r == recreate_swapchain(w1, in.recreate, "acquire")
             IN Return(pre, r.w, "draw_frame", in, r.ret)
        ELSE IF arm = "error"
        THEN Return(pre, w1, "draw_frame", in, AppErrorFrom(in.acquire))
        ELSE draw_frame_submit(pre, w1, in)


\* inputs of draw_frame: the status of each device call in call order, NONE
\* for the calls after the one that ends the cycle
DrawInput(wait, acquire, rf, rcb, rec, sub, pres, rc) ==
    [wait |-> wait, acquire |-> acquire, reset_fences |-> rf,
     reset_command_buffer |-> rcb, record |-> rec, submit |-> sub,
     present |-> pres, recreate |-> rc]

NoInput == DrawInput(NONE, NONE, NONE, NONE, NONE, NONE, NONE, NoRecreate)

AcquireOk == {SUCCESS, SUBOPTIMAL_KHR}

DrawInputs ==
    {DrawInput(c, NONE, NONE, NONE, NONE, NONE, NONE, NoRecreate) : c \in ErrorCodes}
    \cup {DrawInput(SUCCESS, ERROR_OUT_OF_DATE_KHR, NONE, NONE, NONE, NONE, NONE, rc) :
            rc \in RecreateInputs \cup {NoRecreate}}
    \cup {DrawInput(SUCCESS, c, NONE, NONE, NONE, NONE, NONE, NoRecreate) : c \in ErrorCodes}
    \cup {DrawInput(SUCCESS, a[1], a[2], NONE, NONE, NONE, NONE, NoRecreate) :
            a \in AcquireOk \X ErrorCodes}
    \cup {DrawInput(SUCCESS, a[1], SUCCESS, a[2], NONE, NONE, NONE, NoRecreate) :
            a \in AcquireOk \X ErrorCodes}
    \cup {DrawInput(SUCCESS, a[1], SUCCESS, SUCCESS, a[2], NONE, NONE, NoRecreate) :
            a \in AcquireOk \X ErrorCodes}
    \cup {DrawInput(SUCCESS, a[1], SUCCESS, SUCCESS, SUCCESS, a[2], NONE, NoRecreate) :
            a \in AcquireOk \X ErrorCodes}
    \cup {DrawInput(SUCCESS, a[1], SUCCESS, SUCCESS, SUCCESS, SUCCESS, a[2], a[3]) :
            a \in AcquireOk \X SurfaceStatus \X (RecreateInputs \cup {NoRecreate})}

\* an input names statuses for recreate_swapchain exactly when the call is made
Consumed(in, post) ==
    (in.recreate # NoRecreate) <=> (\E i \in DOMAIN post.trace : post.trace[i] = "device_wait_idle")

\* ------------------------------------------------------------------ cleanup
RECURSIVE CallAll(_, _)
CallAll(w, names) == IF names = <<>> THEN w ELSE CallAll(Call(w, Head(names)), Tail(names))

Free(w, a) == [w EXCEPT !.mem = free_memory(@, a)]

\* destroy_buffer / destroy_memory_mapped_buffer
destroy_buffer(w, a) ==
    Free(CallAll(w, <<"destroy_buffer:" \o a[1], "free_memory:" \o a[1]>>), a)

RECURSIVE destroy_uniform_buffers(_, _)
destroy_uniform_buffers(w, n) ==
    IF n = 0 THEN w
    ELSE destroy_buffer(destroy_uniform_buffers(w, n - 1), <<"uniform_buffer", n - 1>>)

RECURSIVE destroy_sync_objects(_, _)
destroy_sync_objects(w, n) ==
    IF n = 0 THEN w
    ELSE CallAll(destroy_sync_objects(w, n - 1),
                 <<"destroy_semaphore:image_avaible", "destroy_semaphore:render_done",
                   "destroy_fence">>)

\* the sampler, then the texture's view, image and memory
destroy_texture_image_first(w) ==
    Free(CallAll(w, <<"destroy_sampler", "destroy_image:texture", "free_memory:texture_image",
                      "destroy_image_view:texture">>),
         <<"texture_image", 0>>)
destroy_texture(w) ==
    Free(CallAll(w, <<"destroy_sampler", "destroy_image_view:texture",
                      "destroy_image:texture", "free_memory:texture_image">>),
         <<"texture_image", 0>>)

\* Application::cleanup once device_wait_idle has returned Ok
cleanup(w) ==
    LET w1 == cleanup_swapchain(device_wait_idle(w))
        w2 == destroy_buffer(destroy_buffer(w1, <<"vertex_buffer", 0>>), <<"index_buffer", 0>>)
        w3 == destroy_texture(w2)
        w4 == destroy_uniform_buffers(w3, MAX_FRAMES_IN_FLIGHT)
        w5 == CallAll(w4, <<"destroy_descriptor_pool", "destroy_descriptor_set_layout",
                            "destroy_pipeline", "destroy_pipeline_layout",
                            "destroy_render_pass">>)
        w6 == destroy_sync_objects(w5, MAX_FRAMES_IN_FLIGHT)
        w7 == CallAll(w6, <<"destroy_command_pool", "destroy_device">>)
        w8 == IF w.vlayers THEN Call(w7, "destroy_debug_utils_messenger") ELSE w7
    IN CallAll(w8, <<"destroy_surface", "destroy_instance">>)

\* ------------------------------------------------------------ memory types
\* vk::MemoryPropertyFlags
MemoryPropertyFlags == {"DEVICE_LOCAL", "HOST_VISIBLE"}

\* mem_type_filter & (1 << i) != 0
BitSet(mem_type_filter, i) == (mem_type_filter \div (2 ^ i)) % 2 = 1

\* find_memory_type: the loop over mem_proprieties.memory_types from index i
\* on; memory_types[i + 1] holds the property flags of memory type i
RECURSIVE find_memory_type_from(_, _, _, _)
find_memory_type_from(memory_types, mem_type_filter, proprieties, i) ==
    IF i >= Len(memory_types) THEN AppErrorNew("NoSuitableMemType")
    ELSE IF BitSet(mem_type_filter, i) /\ proprieties \subseteq memory_types[i + 1]
         THEN OkOf(i)
         ELSE find_memory_type_from(memory_types, mem_type_filter, proprieties, i + 1)

RECURSIVE find_memory_type_ignores_filter_from(_, _, _)
find_memory_type_ignores_filter_from(memory_types, proprieties, i) ==
    IF i >= Len(memory_types) THEN AppErrorNew("NoSuitableMemType")
    ELSE IF proprieties \subseteq memory_types[i + 1] THEN OkOf(i)
         ELSE find_memory_type_ignores_filter_from(memory_types, proprieties, i + 1)

find_memory_type_ignores_filter(memory_types, mem_type_filter, proprieties) ==
    find_memory_type_ignores_filter_from(memory_types, proprieties, 0)
find_memory_type(memory_types, mem_type_filter, proprieties) ==
    find_memory_type_from(memory_types, mem_type_filter, proprieties, 0)

\* ---------------------------------------------------------- physical device
\* DEVICE_EXTENSIONS
DEVICE_EXTENSIONS == <<"VK_KHR_swapchain">>

\* QueueFamilyIndice: default(), is_complete()
\* Option<u32>::None of a family index
NoFamily == -1

QueueFamilyIndice(graphics_family, present_family) ==
    [graphics_family |-> graphics_family, present_family |-> present_family]

is_complete(indices) ==
    indices.graphics_family # NoFamily /\ indices.present_family # NoFamily

\* find_queue_families: the loop over the device's queue families from
\* family i on (queue_families[i + 1] is family i); the query of the surface
\* support of a family can fail. examined counts the families whose flags or
\* surface support the loop has looked at.
RECURSIVE find_queue_families_without_break(_, _, _)
find_queue_families_without_break(device, indices, i) ==
    IF i >= Len(device.queue_families) THEN [ret |-> OkOf(indices), examined |-> i]
    ELSE IF IsErr(device.surface_support_status)
         THEN [ret |-> AppErrorFrom(device.surface_support_status), examined |-> i + 1]
    ELSE LET family == device.queue_families[i + 1]
             g == IF family.graphics THEN i ELSE indices.graphics_family
             p == IF family.present THEN i ELSE indices.present_family
         IN find_queue_families_without_break(device, QueueFamilyIndice(g, p), i + 1)

RECURSIVE find_queue_families_from(_, _, _)
find_queue_families_from(device, indices, i) ==
    IF i >= Len(device.queue_families) \/ is_complete(indices)
    THEN [ret |-> OkOf(indices), examined |-> i]
    ELSE IF IsErr(device.surface_support_status)
         THEN [ret |-> AppErrorFrom(device.surface_support_status), examined |-> i + 1]
    ELSE LET family == device.queue_families[i + 1]
             g == IF family.graphics THEN i ELSE indices.graphics_family
             p == IF family.present THEN i ELSE indices.present_family
         IN find_queue_families_from(device, QueueFamilyIndice(g, p), i + 1)

find_queue_families(device) ==
    find_queue_families_from(device, QueueFamilyIndice(NoFamily, NoFamily), 0).ret

\* HashSet::insert(ext) on the set check_device_extensions_support has built.
\* The keys of the set are CStr references into the loop variable a_ext, which
\* is gone when the loop ends: with a non-empty list of available extensions
\* the comparison of ext with the keys reads dangling references, and insert
\* can return either value.  With no available extension the set is empty and
\* ext is newly inserted.
insert(device, ext) ==
    IF device.avaible_extensions = <<>> THEN TRUE ELSE device.dangling_read

\* check_device_extensions_support: Ok(false) as soon as an insert of a
\* required extension returns false
RECURSIVE check_device_extensions_support_from(_, _)
check_device_extensions_support_from(device, i) ==
    IF i > Len(DEVICE_EXTENSIONS) THEN OkOf(TRUE)
    ELSE IF ~insert(device, DEVICE_EXTENSIONS[i]) THEN OkOf(FALSE)
         ELSE check_device_extensions_support_from(device, i + 1)

check_device_extensions_support(device) ==
    IF IsErr(device.extensions_status) THEN AppErrorFrom(device.extensions_status)
    ELSE check_device_extensions_support_from(device, 1)

\* Ok(None) of is_device_suitable
None == [none |-> TRUE]

is_device_suitable(device) ==
    LET indices == find_queue_families(device)
        extensions_supported == check_device_extensions_support(device)
    IN  IF indices.error_type # "Ok" THEN indices
        ELSE IF ~is_complete(indices.value) THEN OkOf(None)
        ELSE IF extensions_supported.error_type # "Ok" THEN extensions_supported
        ELSE IF ~extensions_supported.value THEN OkOf(None)
        ELSE IF IsErr(device.swapchain_support_status)
             THEN AppErrorFrom(device.swapchain_support_status)
        ELSE IF ~(device.formats # <<>> /\ device.present_modes # <<>>) THEN OkOf(None)
        ELSE IF ~device.sampler_anisotropy THEN OkOf(None)
        ELSE OkOf(indices.value)

\* the closure of find_map: is_device_suitable(..).ok()?.map(..) is Some for
\* Ok(Some(indices)) only
FoundIn(device) ==
    LET r == is_device_suitable(device)
    IN r.error_type = "Ok" /\ r.value # None

\* pick_physical_device: find_map over the enumerated devices from position i
\* on; the handle of a device is its position in the enumeration
RECURSIVE pick_physical_device_from(_, _)
pick_physical_device_from(physical_devices, i) ==
    IF i > Len(physical_devices) THEN AppErrorNew("NoSuitableDevice")
    ELSE IF FoundIn(physical_devices[i])
         THEN OkOf([device |-> i, indices |-> is_device_suitable(physical_devices[i]).value])
         ELSE pick_physical_device_from(physical_devices, i + 1)

RECURSIVE pick_physical_device_last_from(_, _)
pick_physical_device_last_from(physical_devices, i) ==
    IF i < 1 THEN AppErrorNew("NoSuitableDevice")
    ELSE IF FoundIn(physical_devices[i])
         THEN OkOf([device |-> i, indices |-> is_device_suitable(physical_devices[i]).value])
         ELSE pick_physical_device_last_from(physical_devices, i - 1)

pick_physical_device_last(enumerate_status, physical_devices) ==
    IF IsErr(enumerate_status) THEN AppErrorFrom(enumerate_status)
    ELSE pick_physical_device_last_from(physical_devices, Len(physical_devices))
pick_physical_device(enumerate_status, physical_devices) ==
    IF IsErr(enumerate_status) THEN AppErrorFrom(enumerate_status)
    ELSE pick_physical_device_from(physical_devices, 1)

\* ------------------------------------------------------------------- actions
NoGiven == [fn |-> "none"]

NotApplied == [applied |-> FALSE]

\* the Application as Application::create returns it
Created ==
    /\ current_frame = 0
    /\ resize_flag = FALSE
    /\ in_flight_fences = [k \in Slots |-> TRUE]
    /\ uniform_buffers = [k \in Slots |-> [time |-> -1, extent |-> Extent2D(0, 0)]]
    /\ surface_extent = Extent2D(2, 1)
    /\ surface_formats = <<SurfaceFormatKHR(R8G8B8A8_UNORM, SRGB_NONLINEAR),
                           SurfaceFormatKHR(B8G8R8A8_SRGB, SRGB_NONLINEAR)>>
    /\ swapchain = SwapChainHolder(1, choose_swap_extent(SurfaceCapabilities(surface_extent)),
                                   choose_swap_surface_format(surface_formats).format,
                                   get_swapchain_images(image_count(SurfaceCapabilities(surface_extent)),
                                                        surface_extent))
    /\ swapchain_frame_buffers = frame_buffers(swapchain)
    /\ live_swapchains = {1}
    /\ live_framebuffers = Handles(swapchain_frame_buffers)
    /\ next_handle = 2
    /\ graphics_queue = <<>>
    /\ device_reads = <<>>
    /\ surface_changes = 0
    /\ elapsed = 0
    /\ phase = "running"
    /\ cleanups = 0
    /\ mem = create_mem
    /\ trace = Returned[vlayers].trace
    /\ last = [op |-> "create", at |-> 0, frame |-> 0, flag |-> FALSE, in |-> NoInput,
               ret |-> Ok]
    /\ recreate_log = <<>>
    /\ presents = 0
    /\ resize_log = <<>>
    /\ draws = 0
    /\ statuses = {}
    /\ semaphores = [s \in Semaphores |-> Unsignaled]
    /\ descriptor_sets = Returned[FALSE].descriptor_sets
    /\ present_requests = <<>>

Init ==
    /\ vlayers \in BOOLEAN
    /\ Created
    /\ given = NoGiven
    /\ result = NotApplied

\* WindowEvent::RedrawRequested -> Application::draw_frame
DrawFrameWithin(budget) ==
    /\ phase = "running"
    /\ elapsed < budget
    /\ \E in \in DrawInputs :
          /\ wait_for_fences(World, current_frame, in.wait)
          /\ LET post == draw_frame(World, in)
             IN Consumed(in, post) /\ Becomes(post)

\* WindowEvent::Resized -> Application::request_resize
request_resize_recreates_at_once(w) ==
    LET w1 == [Enter(w) EXCEPT !.resize_flag = TRUE, !.resize_log = Append(@, w.draws)]
        r == recreate_swapchain(w1, [idle |-> SUCCESS, families |-> SUCCESS,
                                     create |-> SUCCESS, framebuffers |-> SUCCESS], "direct")
    IN Return(w, r.w, "request_resize", NoInput, r.ret)
request_resize(w) ==
    LET w1 == [Enter(w) EXCEPT !.resize_flag = TRUE, !.resize_log = Append(@, w.draws)]
    IN Return(w, w1, "request_resize", NoInput, Ok)

DrawFrame == DrawFrameWithin(MaxElapsed)

RequestResizeWithin(budget) ==
    /\ phase = "running"
    /\ elapsed < budget
    /\ Becomes(request_resize(World))

RequestResize == RequestResizeWithin(MaxElapsed)

\* Application::recreate_swapchain called by the owner of the Application
RecreateSwapchainWithin(budget) ==
    /\ phase = "running"
    /\ elapsed < budget
    /\ \E rc \in RecreateInputs :
          LET r == recreate_swapchain(Enter(World), rc, "direct")
          IN Becomes(Return(World, r.w, "recreate_swapchain",
                            [NoInput EXCEPT !.recreate = rc], r.ret))

RecreateSwapchain == RecreateSwapchainWithin(MaxElapsed)

\* Application::cleanup; device_wait_idle().unwrap() panics on an error
Cleanup ==
    /\ phase \in {"running", "failed", "cleaned"}
    /\ cleanups < MaxCleanups
    /\ \E idle \in CallStatus :
          LET w0 == [Enter(World) EXCEPT !.cleanups = @ + 1]
              in == [NoInput EXCEPT !.recreate.idle = idle]
          IN IF IsErr(idle)
             THEN Becomes([Return(World, Call(w0, "device_wait_idle"), "cleanup", in,
                                  AppErrorFrom(idle)) EXCEPT !.phase = "exited"])
             ELSE Becomes([Return(World, cleanup(w0), "cleanup", in, Ok)
                              EXCEPT !.phase = "cleaned"])

\* WindowEvent::CloseRequested -> event_loop.exit(); run_app returns and main
\* ends: App and its Application are dropped, Application has no Drop impl
Exit ==
    /\ phase \in {"running", "failed", "cleaned"}
    /\ phase' = "exited"
    /\ UNCHANGED <<current_frame, resize_flag, in_flight_fences, uniform_buffers, swapchain,
          swapchain_frame_buffers, live_swapchains, live_framebuffers, next_handle,
          graphics_queue, device_reads, surface_extent, surface_formats,
          surface_changes, elapsed,
          cleanups, mem, vlayers, trace, last, recreate_log, presents,
          resize_log, draws, statuses, semaphores, descriptor_sets,
          present_requests, given, result>>

\* the device completes the oldest pending submission
GpuComplete ==
    /\ phase \in {"running", "failed"}
    /\ graphics_queue # <<>>
    /\ Becomes(Execute([World EXCEPT !.device_reads = <<>>]))

\* the window system changes the size of the surface
SurfaceChanged ==
    /\ phase = "running"
    /\ surface_changes < MaxSurfaceChanges
    /\ \E e \in Extents, f \in SurfaceFormatLists :
          /\ <<e, f>> # <<surface_extent, surface_formats>>
          /\ e = surface_extent \/ f = surface_formats
          /\ Becomes([World EXCEPT !.surface_extent = e, !.surface_formats = f,
                                   !.surface_changes = @ + 1])

\* the running renderer: the frame scheduler and its environment
Next ==
    \/ DrawFrame
    \/ RequestResize
    \/ RecreateSwapchain
    \/ GpuComplete
    \/ SurfaceChanged

Spec == Init /\ [][Next]_vars

\* a whole run of the process, from Application::create to process exit
DrawFrameLifecycle == DrawFrameWithin(MaxLifecycleElapsed)

RequestResizeLifecycle == RequestResizeWithin(MaxLifecycleElapsed)

RecreateSwapchainLifecycle == RecreateSwapchainWithin(MaxLifecycleElapsed)

NextLifecycle ==
    \/ DrawFrameLifecycle
    \/ RequestResizeLifecycle
    \/ RecreateSwapchainLifecycle
    \/ GpuComplete
    \/ SurfaceChanged
    \/ Cleanup
    \/ Exit

SpecLifecycle == Init /\ [][NextLifecycle]_vars

\* ------------------------------------------------ the redraw loop of main.rs
\* VK_ERROR_OUT_OF_DATE_KHR: the surface no longer matches the swapchain
out_of_date(w) == w.swapchain.extent # w.surface_extent

\* redraws a pending resize request is still given once the clock has reached
\* MaxElapsed: one per remaining change of the surface, and one more
RedrawBudget == MaxElapsed + MaxSurfaceChanges + 1

\* RedrawRequested -> draw_frame().unwrap(); window.request_redraw(): a run in
\* which no device call returns a status other than SUCCESS, SUBOPTIMAL_KHR
\* and, when the surface has changed, ERROR_OUT_OF_DATE_KHR
Redraw ==
    /\ phase = "running"
    /\ elapsed < (IF resize_flag THEN RedrawBudget ELSE MaxElapsed)
    /\ \E in \in DrawInputs :
          /\ Reported(in) \cap ErrorCodes = {}
          /\ (ERROR_OUT_OF_DATE_KHR \in Reported(in)) => out_of_date(World)
          /\ wait_for_fences(World, current_frame, in.wait)
          /\ LET post == draw_frame(World, in)
             IN Consumed(in, post) /\ Becomes(post)

NextRedraw ==
    \/ Redraw
    \/ RequestResize
    \/ GpuComplete
    \/ SurfaceChanged

\* ENABLED Redraw: draw_frame can be entered and its fence wait returns
RedrawEnabled ==
    /\ phase = "running"
    /\ elapsed < (IF resize_flag THEN RedrawBudget ELSE MaxElapsed)
    /\ in_flight_fences[current_frame]

\* WF_vars(Redraw), with ENABLED <<Redraw>>_vars written out
RedrawsKeepComing == []<>(~RedrawEnabled) \/ []<><<Redraw>>_vars

\* every redraw requests the next one, and the device finishes what it is given
SpecRedraw == Init /\ [][NextRedraw]_vars /\ RedrawsKeepComing /\ WF_vars(GpuComplete)

\* ------------------------------------- the timing of the presentation engine
\* draw_frame when every device call succeeds; acquire_next_image returns an
\* image only when one is neither being drawn to nor waiting to be presented
DrawAndPresent ==
    /\ phase = "running"
    /\ elapsed < MaxElapsed
    /\ Len(graphics_queue) + Len(present_requests) < Len(swapchain.swapchain_image_views)
    /\ \E in \in DrawInputs :
          /\ Reported(in) \subseteq {SUCCESS, SUBOPTIMAL_KHR}
          /\ wait_for_fences(World, current_frame, in.wait)
          /\ LET post == draw_frame(World, in)
             IN Consumed(in, post) /\ Becomes(post)

\* the device completes the oldest pending submission: its fence and its
\* render_done semaphore are signaled
SubmissionComplete ==
    /\ phase = "running"
    /\ graphics_queue # <<>>
    /\ Becomes(ExecuteSubmission([World EXCEPT !.device_reads = <<>>]))

\* the presentation engine takes up the oldest request, at a time of its own
PresentationEngine ==
    /\ phase = "running"
    /\ present_requests # <<>>
    /\ Becomes(Present(World))

NextPresentation ==
    \/ DrawAndPresent
    \/ SubmissionComplete
    \/ PresentationEngine

SpecPresentation == Init /\ [][NextPresentation]_vars

\* ------------------------------------- the selection functions on their own
\* the sequences over S of length at most n
SeqsUpTo(S, n) == UNION {[1 .. k -> S] : k \in 0 .. n}

SurfaceFormats ==
    {SurfaceFormatKHR(R8G8B8A8_UNORM, SRGB_NONLINEAR),
     SurfaceFormatKHR(B8G8R8A8_SRGB, SRGB_NONLINEAR),
     SurfaceFormatKHR(B8G8R8A8_SRGB, EXTENDED_SRGB_LINEAR)}

PresentModes == {MAILBOX, FIFO, IMMEDIATE}

FormatGivens ==
    [fn : {"choose_swap_surface_format"}, avaible_formats : SeqsUpTo(SurfaceFormats, MaxFormats)]

ModeGivens ==
    [fn : {"choose_swap_present_mode"}, avaible_present_modes : SeqsUpTo(PresentModes, MaxModes)]

MemoryTypeGivens ==
    [fn : {"find_memory_type"},
     memory_types : [1 .. MaxMemTypes -> SUBSET MemoryPropertyFlags],
     mem_type_filter : 0 .. (2 ^ MaxMemTypes - 1),
     proprieties : SUBSET MemoryPropertyFlags]

\* a physical device as the instance and the surface describe it: here one
\* with the swapchain extension, a surface format and a present mode
PhysicalDevice(queue_families, sampler_anisotropy, surface_support_status) ==
    [queue_families |-> queue_families, avaible_extensions |-> <<"VK_KHR_swapchain">>,
     dangling_read |-> TRUE,
     formats |-> <<SurfaceFormatKHR(B8G8R8A8_SRGB, SRGB_NONLINEAR)>>,
     present_modes |-> <<FIFO>>,
     sampler_anisotropy |-> sampler_anisotropy,
     surface_support_status |-> surface_support_status, extensions_status |-> SUCCESS,
     swapchain_support_status |-> SUCCESS]

QueueFamilies == [graphics : BOOLEAN, present : BOOLEAN]

ExtensionLists ==
    {<<>>, <<"VK_KHR_maintenance1">>, <<"VK_KHR_swapchain">>,
     <<"VK_KHR_maintenance1", "VK_KHR_swapchain">>,
     <<"VK_KHR_swapchain", "VK_KHR_maintenance1">>}

\* the status of a fallible query of is_device_suitable
QueryStatus == {SUCCESS, "ERROR_DEVICE_LOST"}

\* at most one query fails, and the read of a dangling key is an input only
\* where check_device_extensions_support makes it
PhysicalDevices ==
    {d \in [queue_families : SeqsUpTo(QueueFamilies, MaxFamilies),
            avaible_extensions : ExtensionLists,
            dangling_read : BOOLEAN,
            formats : {<<>>, <<SurfaceFormatKHR(B8G8R8A8_SRGB, SRGB_NONLINEAR)>>},
            present_modes : {<<>>, <<FIFO>>},
            sampler_anisotropy : BOOLEAN,
            surface_support_status : QueryStatus,
            extensions_status : QueryStatus,
            swapchain_support_status : QueryStatus] :
        /\ d.avaible_extensions = <<>> => ~d.dangling_read
        /\ IsErr(d.surface_support_status)
           => d.extensions_status = SUCCESS /\ d.swapchain_support_status = SUCCESS
        /\ IsErr(d.extensions_status) => d.swapchain_support_status = SUCCESS}

SuitabilityGivens == [fn : {"is_device_suitable"}, device : PhysicalDevices]

\* the devices find_queue_families is given: any families, the surface
\* support query working or failing
FamilyGivens ==
    [fn : {"find_queue_families"},
     device : {PhysicalDevice(q, TRUE, st) : q \in SeqsUpTo(QueueFamilies, MaxFamilies),
                                             st \in QueryStatus}]

Both == [graphics |-> TRUE, present |-> TRUE]

\* the devices a machine enumerates: an integrated and a discrete device
\* that pass, one without anisotropic sampling, one whose surface query fails
EnumeratedDevices ==
    {PhysicalDevice(<<Both>>, TRUE, SUCCESS),
     PhysicalDevice(<<[graphics |-> TRUE, present |-> FALSE],
                      [graphics |-> FALSE, present |-> TRUE]>>, TRUE, SUCCESS),
     PhysicalDevice(<<Both>>, FALSE, SUCCESS),
     PhysicalDevice(<<Both>>, TRUE, "ERROR_DEVICE_LOST")}

\* no device is enumerated when the enumeration fails
PickGivens ==
    {g \in [fn : {"pick_physical_device"},
            enumerate_status : CallStatus,
            physical_devices : SeqsUpTo(EnumeratedDevices, MaxDevices)] :
        IsErr(g.enumerate_status) => g.physical_devices = <<>>}

\* what a surface can report to create_swapchain
CurrentExtents ==
    {Extent2D(w, h) : w \in 1 .. MaxExtent, h \in 1 .. MaxExtent}
    \cup {Extent2D(U32_MAX, U32_MAX)}

SwapchainGivens ==
    {g \in [fn : {"create_swapchain"},
            swapchain_support :
                [capabilities : [current_extent : CurrentExtents,
                                 min_image_extent : {Extent2D(1, 1)},
                                 max_image_extent : {Extent2D(MaxExtent, MaxExtent)},
                                 min_image_count : 1 .. MaxImageCount,
                                 max_image_count : 0 .. (MaxImageCount + 1)],
                 formats : SurfaceFormatLists,
                 present_modes : {<<FIFO>>, <<FIFO, MAILBOX>>}],
            indices : [graphics_family : 0 .. 1, present_family : 0 .. 1]] :
        LET c == g.swapchain_support.capabilities
        IN c.max_image_count = 0 \/ c.max_image_count >= c.min_image_count}

\* what the environment can do to a construction: which fallible call fails,
\* with which status, and when the device runs the one-shot submissions
CreateCalls == Returned[TRUE].n

CreateGivens ==
    [fn : {"create"},
     in : {i \in [fail : 0 .. CreateCalls, status : CallStatus, eager : BOOLEAN,
                  vlayers : BOOLEAN] : (i.fail = 0) <=> (i.status = SUCCESS)}]

InitSelection ==
    /\ vlayers = FALSE
    /\ Created
    /\ \/ given \in FormatGivens
       \/ given \in ModeGivens
       \/ given \in MemoryTypeGivens
       \/ given \in SuitabilityGivens
       \/ given \in PickGivens
       \/ given \in FamilyGivens
       \/ given \in SwapchainGivens
       \/ given \in CreateGivens
    /\ result = NotApplied

\* the function named by given is applied to the arguments given
Apply(fn, value) ==
    /\ given.fn = fn
    /\ ~result.applied
    /\ result' = [applied |-> TRUE, value |-> value]
    /\ UNCHANGED <<current_frame, resize_flag, in_flight_fences, uniform_buffers, swapchain,
          swapchain_frame_buffers, live_swapchains, live_framebuffers, next_handle,
          graphics_queue, device_reads, surface_extent, surface_formats,
          surface_changes, elapsed, phase, cleanups, mem, vlayers, trace, last,
          recreate_log, presents, resize_log, draws, statuses, semaphores,
          descriptor_sets, present_requests, given>>

ChooseSwapSurfaceFormat ==
    /\ given.fn = "choose_swap_surface_format"
    /\ Apply("choose_swap_surface_format", choose_swap_surface_format(given.avaible_formats))

ChooseSwapPresentMode ==
    /\ given.fn = "choose_swap_present_mode"
    /\ Apply("choose_swap_present_mode", choose_swap_present_mode(given.avaible_present_modes))

FindMemoryType ==
    /\ given.fn = "find_memory_type"
    /\ Apply("find_memory_type",
             find_memory_type(given.memory_types, given.mem_type_filter, given.proprieties))

IsDeviceSuitable ==
    /\ given.fn = "is_device_suitable"
    /\ Apply("is_device_suitable", is_device_suitable(given.device))

FindQueueFamilies ==
    /\ given.fn = "find_queue_families"
    /\ Apply("find_queue_families",
             find_queue_families_from(given.device, QueueFamilyIndice(NoFamily, NoFamily), 0))

PickPhysicalDevice ==
    /\ given.fn = "pick_physical_device"
    /\ Apply("pick_physical_device",
             pick_physical_device(given.enumerate_status, given.physical_devices))

\* create_swapchain up to the call of vkCreateSwapchainKHR
CreateSwapchain ==
    /\ given.fn = "create_swapchain"
    /\ Apply("create_swapchain", swapchain_create_info(given.swapchain_support, given.indices))

\* Application::create, from Entry::load to Ok(Self {..}) or the first Err
Create ==
    /\ given.fn = "create"
    /\ Apply("create", create(given.in))

NextSelection ==
    \/ ChooseSwapSurfaceFormat
    \/ ChooseSwapPresentMode
    \/ FindMemoryType
    \/ IsDeviceSuitable
    \/ FindQueueFamilies
    \/ PickPhysicalDevice
    \/ CreateSwapchain
    \/ Create

SpecSelection == InitSelection /\ [][NextSelection]_vars


\* ------------------------------------------------------------------- claims
Pending == DOMAIN graphics_queue

Called(name) == \E i \in DOMAIN trace : trace[i] = name

\* C1: at most MAX_FRAMES_IN_FLIGHT submissions are pending with an unsignaled
\* fence at any instant, and no slot has two pending submissions: draw_frame
\* never submits slot k again while the fence of slot k's previous submission
\* is unsignaled.
C1_BoundedInFlight ==
    /\ Cardinality(Pending) <= MAX_FRAMES_IN_FLIGHT
    /\ \A i \in Pending : ~in_flight_fences[graphics_queue[i].fence]
    /\ \A i, j \in Pending :
          i # j => graphics_queue[i].slot # graphics_queue[j].slot

\* every slot is in flight and slot 1 was submitted after slot 0 was reused
C1_Witness ==
    /\ Len(graphics_queue) = MAX_FRAMES_IN_FLIGHT
    /\ draws = 3
    /\ graphics_queue[MAX_FRAMES_IN_FLIGHT].cycle = 3

\* C2: while a submission of slot k is pending, slot k's uniform buffer holds
\* the data written in the cycle that made the submission (no later draw_frame
\* overwrites it), and every draw the device executed read the data written in
\* its own cycle.
C2_UniformRoundTrip ==
    /\ \A i \in Pending :
          uniform_buffers[graphics_queue[i].descriptor_set].time = graphics_queue[i].cycle
    /\ \A i \in DOMAIN device_reads : device_reads[i].got.time = device_reads[i].cycle

\* the device read slot 0's buffer in a cycle that reused slot 0
C2_Witness ==
    /\ draws = 3
    /\ presents = 3
    /\ \E i \in DOMAIN device_reads : device_reads[i].slot = 0 /\ device_reads[i].cycle = 3

\* the stages at which redraw n recreated the swapchain
RECURSIVE StagesIn(_, _)
StagesIn(log, n) ==
    IF log = <<>> THEN <<>>
    ELSE IF Head(log).draw = n THEN <<Head(log).stage>> \o StagesIn(Tail(log), n)
    ELSE StagesIn(Tail(log), n)

\* redraw 1, then one resize event, then redraw 2 has just returned
ResizeBetweenRedraws ==
    /\ last.op = "draw_frame"
    /\ draws = 2
    /\ resize_log = <<1>>
    /\ \A i \in DOMAIN recreate_log : recreate_log[i].stage # "direct"

\* no device call of the last draw_frame failed with a status other than
\* out-of-date
NoFatalStatus(in) == Reported(in) \cap ErrorCodes = {}

\* C3 as stated: a resize event delivered between redraw 1 and redraw 2 results
\* in exactly one swapchain recreation, in the present step of redraw 2,
\* whatever the surface reports to acquire and present.
C3_AsStated ==
    (ResizeBetweenRedraws /\ NoFatalStatus(last.in))
        => StagesIn(recreate_log, 2) = <<"present">>

\* C3 (amended): when redraw 2's acquire returns an image (success or
\* suboptimal) and no device call fails, the resize event delivered between
\* redraw 1 and redraw 2 results in exactly one swapchain recreation, in the
\* present step of redraw 2, whatever presentation reports (success,
\* suboptimal or out-of-date), and the resize flag is cleared.
C3_RecreateAtPresent ==
    (ResizeBetweenRedraws /\ NoFatalStatus(last.in) /\ last.in.acquire \in AcquireOk)
        => /\ StagesIn(recreate_log, 2) = <<"present">>
           /\ ~resize_flag
           /\ Called("queue_present")

C3_Witness ==
    /\ ResizeBetweenRedraws
    /\ NoFatalStatus(last.in)
    /\ last.in.acquire \in AcquireOk
    /\ last.in.present = SUCCESS
    /\ last.ret = Ok

\* three consecutive draw_frame calls on a fresh Application, nothing else
ThreeRedraws ==
    /\ draws = 3
    /\ elapsed = 3
    /\ last.op = "draw_frame"

\* C4 as stated: three consecutive draw_frame calls with no request_resize
\* produce three successful present calls and no swapchain recreation.
C4_AsStated ==
    (ThreeRedraws /\ statuses \cap ErrorCodes = {})
        => presents = 3 /\ recreate_log = <<>>

\* C4 (amended): three consecutive draw_frame calls with no request_resize,
\* in which no device call fails and neither acquire nor present reports
\* out-of-date, produce three successful present calls, never invoke
\* recreate_swapchain and advance the frame index three times.
C4_ThreePresents ==
    (ThreeRedraws /\ statuses \subseteq {SUCCESS, SUBOPTIMAL_KHR})
        => /\ presents = 3
           /\ recreate_log = <<>>
           /\ ~Called("device_wait_idle")
           /\ last.ret = Ok
           /\ current_frame = 3 % MAX_FRAMES_IN_FLIGHT

C4_Witness ==
    /\ ThreeRedraws
    /\ statuses = {SUCCESS, SUBOPTIMAL_KHR}
    /\ last.in.present = SUBOPTIMAL_KHR
    /\ presents = 3

\* C5: in the present step, if presentation reports out-of-date or a resize
\* was requested, draw_frame recreates the swapchain, returns Ok and does not
\* advance current_frame; also for out-of-date when no resize was requested.
C5_AsStated ==
    (/\ last.op = "draw_frame"
     /\ NoFatalStatus(last.in)
     /\ last.in.present # NONE
     /\ (last.in.present = ERROR_OUT_OF_DATE_KHR \/ last.flag))
        => /\ Called("device_wait_idle")
           /\ last.ret = Ok
           /\ current_frame = last.frame

\* C6: when acquire reports out-of-date, draw_frame goes straight to
\* recreate_swapchain: the fence is not reset, nothing is recorded, submitted
\* or presented, current_frame is unchanged, and Ok is returned once the
\* recreation has succeeded.
C6_AcquireOutOfDate ==
    (last.op = "draw_frame" /\ last.in.acquire = ERROR_OUT_OF_DATE_KHR)
        => /\ Len(trace) >= 3
           /\ SubSeq(trace, 1, 3) = <<"wait_for_fences", "acquire_next_image", "device_wait_idle">>
           /\ \A n \in {"reset_fences", "reset_command_buffer", "begin_command_buffer",
                        "queue_submit", "queue_present"} : ~Called(n)
           /\ in_flight_fences[last.frame]
           /\ \A i \in Pending : graphics_queue[i].cycle # last.at
           /\ current_frame = last.frame
           /\ (NoFatalStatus(last.in) =>
                  /\ last.ret = Ok
                  /\ StagesIn(recreate_log, draws) = <<"acquire">>
                  /\ swapchain.id \in live_swapchains)

C6_Witness ==
    /\ last.op = "draw_frame"
    /\ last.in.acquire = ERROR_OUT_OF_DATE_KHR
    /\ last.ret = Ok
    /\ draws = 2
    /\ graphics_queue = <<>>

\* the calls of draw_frame itself, in call order
DrawCallStatuses(in) ==
    {in.wait, in.acquire, in.reset_fences, in.reset_command_buffer, in.record, in.submit,
     in.present}

\* C7: a status other than out-of-date with which a device call of draw_frame
\* (fence wait, acquire, fence reset, command-buffer reset, record, submit,
\* present) fails makes draw_frame return a VulkanError carrying that status,
\* without recreating the swapchain and without advancing current_frame.
C7_FatalStatus ==
    \A c \in ErrorCodes :
        (last.op = "draw_frame" /\ c \in DrawCallStatuses(last.in))
            => /\ last.ret = [error_type |-> "VulkanError", code |-> c]
               /\ ~Called("device_wait_idle")
               /\ StagesIn(recreate_log, draws) = <<>>
               /\ current_frame = last.frame

C7_Witness ==
    /\ last.op = "draw_frame"
    /\ last.in.present = "ERROR_OUT_OF_DEVICE_MEMORY"
    /\ last.flag
    /\ last.ret.code = "ERROR_OUT_OF_DEVICE_MEMORY"

\* C8: a request_resize call only sets resize_flag (no device call, no
\* recreation, submission or presentation; current_frame and the swapchain
\* unchanged), and a set flag is cleared only by a draw_frame cycle in its
\* present step.
C8_StickyFlag ==
    [][/\ (elapsed' # elapsed /\ last'.op = "request_resize")
            => /\ resize_flag'
               /\ trace' = <<>>
               /\ last'.ret = Ok
               /\ UNCHANGED <<current_frame, swapchain, swapchain_frame_buffers,
                              live_swapchains, live_framebuffers, graphics_queue,
                              in_flight_fences, uniform_buffers, recreate_log, presents>>
       /\ (resize_flag /\ ~resize_flag')
            => /\ last'.op = "draw_frame"
               /\ elapsed' # elapsed
               /\ \E i \in DOMAIN trace' : trace'[i] = "queue_present"]_vars

\* the flag set by request_resize has survived a draw_frame cycle that ended
\* before its present step
C8_Witness ==
    /\ resize_flag
    /\ resize_log = <<0>>
    /\ last.op = "draw_frame"
    /\ ~Called("queue_present")

\* the position of a destroy call in the order the claim gives
ClaimedRank(name) ==
    CASE name \in {"destroy_semaphore:image_avaible", "destroy_semaphore:render_done",
                   "destroy_fence"} -> 1
      [] name = "destroy_command_pool" -> 2
      [] name \in {"destroy_descriptor_pool", "destroy_descriptor_set_layout"} -> 3
      [] name \in {"destroy_pipeline", "destroy_pipeline_layout"} -> 4
      [] name = "destroy_render_pass" -> 5
      [] name \in {"destroy_framebuffer", "destroy_image_view:swapchain"} -> 6
      [] name = "destroy_swapchain" -> 7
      [] name \in {"destroy_sampler", "destroy_image_view:texture", "destroy_image:texture",
                   "free_memory:texture_image", "destroy_buffer:vertex_buffer",
                   "free_memory:vertex_buffer", "destroy_buffer:index_buffer",
                   "free_memory:index_buffer", "destroy_buffer:uniform_buffer",
                   "free_memory:uniform_buffer"} -> 8
      [] name = "destroy_device" -> 9
      [] name = "destroy_surface" -> 10
      [] name = "destroy_debug_utils_messenger" -> 11
      [] name = "destroy_instance" -> 12
      [] OTHER -> 0

\* the position of a destroy call in the order cleanup follows
CleanupRank(name) ==
    CASE name = "destroy_framebuffer" -> 1
      [] name = "destroy_image_view:swapchain" -> 2
      [] name = "destroy_swapchain" -> 3
      [] name \in {"destroy_buffer:vertex_buffer", "free_memory:vertex_buffer",
                   "destroy_buffer:index_buffer", "free_memory:index_buffer"} -> 4
      [] name \in {"destroy_sampler", "destroy_image_view:texture", "destroy_image:texture",
                   "free_memory:texture_image"} -> 5
      [] name \in {"destroy_buffer:uniform_buffer", "free_memory:uniform_buffer"} -> 6
      [] name \in {"destroy_descriptor_pool", "destroy_descriptor_set_layout"} -> 7
      [] name \in {"destroy_pipeline", "destroy_pipeline_layout"} -> 8
      [] name = "destroy_render_pass" -> 9
      [] name \in {"destroy_semaphore:image_avaible", "destroy_semaphore:render_done",
                   "destroy_fence"} -> 10
      [] name = "destroy_command_pool" -> 11
      [] name = "destroy_device" -> 12
      [] name = "destroy_debug_utils_messenger" -> 13
      [] name = "destroy_surface" -> 14
      [] name = "destroy_instance" -> 15
      [] OTHER -> 0

CleanupReturned == last.op = "cleanup" /\ last.ret = Ok

\* C9 as stated: after the device-idle wait, cleanup destroys sync primitives,
\* command pool, descriptor pool and layout, pipeline and pipeline layout,
\* render pass, swapchain (views then chain), samplers/images/buffers and
\* memory, device, surface, diagnostics messenger, instance, in this order.
C9_AsStated ==
    CleanupReturned
        => /\ trace[1] = "device_wait_idle"
           /\ \A i, j \in 2 .. Len(trace) :
                 i < j => ClaimedRank(trace[i]) <= ClaimedRank(trace[j])

\* C9 (amended): after the device-idle wait, cleanup destroys, in this order:
\* the swapchain (framebuffers, image views, chain), the vertex and index
\* buffers with their memory, the sampler and the texture view, image and
\* memory, the uniform buffers with their memory, the descriptor pool and
\* layout, the pipeline and pipeline layout, the render pass, the per-frame
\* sync primitives, the command pool, the logical device, the optional
\* diagnostics messenger, the surface, the instance.
C9_CleanupOrder ==
    CleanupReturned
        => /\ trace[1] = "device_wait_idle"
           /\ \A i \in 2 .. Len(trace) : CleanupRank(trace[i]) > 0
           /\ \A i, j \in 2 .. Len(trace) :
                 i < j => CleanupRank(trace[i]) <= CleanupRank(trace[j])
           /\ {CleanupRank(trace[i]) : i \in 2 .. Len(trace)}
                 = (1 .. 15) \ (IF vlayers THEN {} ELSE {13})
           /\ trace[Len(trace)] = "destroy_instance"

C9_Witness ==
    /\ CleanupReturned
    /\ vlayers
    /\ draws > 0
    /\ Called("destroy_debug_utils_messenger")

\* C10: every device-memory allocation is bound exactly once, is never freed
\* twice, and has been freed exactly once when the process has exited.
C10_AsStated ==
    \A a \in Allocations :
        /\ mem[a].allocated = 1
        /\ mem[a].bound = 1
        /\ mem[a].freed <= 1
        /\ (phase = "exited" => mem[a].freed = 1)

\* recreate_log[i] and recreate_log[i + 1] are two completed calls of
\* recreate_swapchain in a row (no other API call between them) and the
\* surface did not change between them
RecreatedTwiceInARow(i) ==
    /\ i + 1 \in DOMAIN recreate_log
    /\ recreate_log[i].stage = "direct" /\ recreate_log[i + 1].stage = "direct"
    /\ recreate_log[i + 1].at = recreate_log[i].at + 1
    /\ recreate_log[i + 1].changes = recreate_log[i].changes
    /\ recreate_log[i].done /\ recreate_log[i + 1].done

\* the number of surface changes that had happened when the swapchain that
\* recreation i replaces was created
CreatedAt(i) ==
    LET earlier == {j \in 1 .. (i - 1) : recreate_log[j].done}
    IN IF earlier = {} THEN 0
       ELSE recreate_log[CHOOSE j \in earlier : \A k \in earlier : k <= j].changes

RecreationCalls ==
    <<"device_wait_idle", "destroy_framebuffer", "destroy_image_view:swapchain",
      "destroy_swapchain", "create_swapchain", "create_image_view:swapchain",
      "create_framebuffer">>

InRecreation(name) == \E i \in DOMAIN RecreationCalls : RecreationCalls[i] = name

IsPrefix(s, t) == Len(s) <= Len(t) /\ \A i \in DOMAIN s : s[i] = t[i]

\* C12: a recreation waits for the device to be idle, then destroys the
\* framebuffers, the swapchain image views and the swapchain, and only then
\* creates the new swapchain, its views and its framebuffers, in this order;
\* no framebuffer or swapchain is destroyed while a pending submission
\* references it.
C12_RecreateProtocol ==
    /\ \A i \in Pending :
           /\ graphics_queue[i].framebuffer \in live_framebuffers
           /\ graphics_queue[i].swapchain \in live_swapchains
    /\ last.op \in {"draw_frame", "recreate_swapchain"}
       => IsPrefix(SelectSeq(trace, InRecreation), RecreationCalls)

C12_Witness ==
    /\ last.op = "draw_frame"
    /\ last.ret = Ok
    /\ SelectSeq(trace, InRecreation) = RecreationCalls
    /\ device_reads # <<>>
    /\ swapchain.id \in live_swapchains /\ Handles(swapchain_frame_buffers) \subseteq live_framebuffers

Applied(fn) == given.fn = fn /\ result.applied

Least(S) == CHOOSE i \in S : \A j \in S : i <= j

Elements(l) == {l[i] : i \in DOMAIN l}

Preferred(f) == f.format = B8G8R8A8_SRGB /\ f.color_space = SRGB_NONLINEAR

\* C13: for a non-empty list of surface formats choose_swap_surface_format
\* returns the first entry that is B8G8R8A8_SRGB with SRGB_NONLINEAR when the
\* list has one at any position, and the first entry of the list otherwise.
C13_PreferredFormat ==
    (Applied("choose_swap_surface_format") /\ given.avaible_formats # <<>>)
    => LET l == given.avaible_formats
           P == {i \in DOMAIN l : Preferred(l[i])}
       IN result.value = IF P # {} THEN l[Least(P)] ELSE l[1]

C13_Witness ==
    /\ Applied("choose_swap_surface_format")
    /\ given.avaible_formats = <<SurfaceFormatKHR(R8G8B8A8_UNORM, SRGB_NONLINEAR),
                                 SurfaceFormatKHR(B8G8R8A8_SRGB, SRGB_NONLINEAR)>>
    /\ result.value = SurfaceFormatKHR(B8G8R8A8_SRGB, SRGB_NONLINEAR)

\* C14: choose_swap_present_mode returns MAILBOX when the list of present
\* modes contains MAILBOX and FIFO otherwise, also for the list <<FIFO>>.
C14_PresentMode ==
    Applied("choose_swap_present_mode")
    => result.value = IF MAILBOX \in Elements(given.avaible_present_modes)
                      THEN MAILBOX ELSE FIFO

C14_Witness ==
    /\ Applied("choose_swap_present_mode")
    /\ given.avaible_present_modes = <<IMMEDIATE, FIFO, MAILBOX>>
    /\ result.value = MAILBOX

\* memory type i has its bit set in the filter and has every required flag
Qualifies(i) ==
    /\ BitSet(given.mem_type_filter, i)
    /\ given.proprieties \subseteq given.memory_types[i + 1]

\* C15: find_memory_type returns the lowest index whose bit is set in the
\* filter and whose property flags contain every required flag, and fails
\* with NoSuitableMemType exactly when no index qualifies.
C15_LowestMemoryType ==
    Applied("find_memory_type")
    => LET Q == {i \in 0 .. (Len(given.memory_types) - 1) : Qualifies(i)}
       IN /\ Q # {} => result.value = OkOf(Least(Q))
          /\ Q = {} <=> result.value = AppErrorNew("NoSuitableMemType")

C15_Witness ==
    /\ Applied("find_memory_type")
    /\ given.proprieties = {"DEVICE_LOCAL", "HOST_VISIBLE"}
    /\ given.memory_types[1] = {"DEVICE_LOCAL"}
    /\ given.memory_types[2] = {"DEVICE_LOCAL", "HOST_VISIBLE"}
    /\ ~BitSet(given.mem_type_filter, 1) /\ BitSet(given.mem_type_filter, 0)
    /\ result.value = OkOf(3)

\* C16: pick_physical_device returns the first enumerated device that passes
\* the suitability check, whatever devices follow it, and fails with
\* NoSuitableDevice exactly when no enumerated device passes.
C16_FirstSuitable ==
    (Applied("pick_physical_device") /\ given.enumerate_status = SUCCESS)
    => LET l == given.physical_devices
           P == {i \in DOMAIN l : FoundIn(l[i])}
       IN /\ P # {} => result.value = OkOf([device |-> Least(P),
                                             indices |-> is_device_suitable(l[Least(P)]).value])
          /\ P = {} <=> result.value = AppErrorNew("NoSuitableDevice")

C16_Witness ==
    /\ Applied("pick_physical_device")
    /\ Len(given.physical_devices) = 3
    /\ ~FoundIn(given.physical_devices[1])
    /\ FoundIn(given.physical_devices[2]) /\ FoundIn(given.physical_devices[3])
    /\ given.physical_devices[2] # given.physical_devices[3]
    /\ result.value.error_type = "Ok" /\ result.value.value.device = 2

\* the conditions of suitability as the claim lists them
SuitableAsStated(d) ==
    /\ \E i \in DOMAIN d.queue_families : d.queue_families[i].graphics
    /\ \E i \in DOMAIN d.queue_families : d.queue_families[i].present
    /\ Elements(DEVICE_EXTENSIONS) \subseteq Elements(d.avaible_extensions)
    /\ d.formats # <<>> /\ d.present_modes # <<>>
    /\ d.sampler_anisotropy

\* C17 as stated: when no query fails, a physical device is accepted exactly
\* when it has a graphics family, a family that presents to the surface,
\* every required device extension, a surface format, a present mode and
\* anisotropic sampling.
C17_AsStated ==
    (/\ Applied("is_device_suitable")
     /\ given.device.surface_support_status = SUCCESS
     /\ given.device.extensions_status = SUCCESS
     /\ given.device.swapchain_support_status = SUCCESS)
    => ((result.value.error_type = "Ok" /\ result.value.value # None)
        <=> SuitableAsStated(given.device))

\* C18 as stated: the image count asked for is min_image_count + 1, reduced
\* to max_image_count when max_image_count is nonzero and smaller.
C18_AsStated ==
    (Applied("create_swapchain") /\ ~IsPanic(result.value))
    => LET c == given.swapchain_support.capabilities
       IN result.value.min_image_count =
              IF c.max_image_count # 0 /\ c.max_image_count < c.min_image_count + 1
              THEN c.max_image_count
              ELSE c.min_image_count + 1

\* C19 as stated: when the surface reports the sentinel as its current
\* extent, create_swapchain completes with an extent within the surface's
\* minimum and maximum extent.
C19_AsStated ==
    (/\ Applied("create_swapchain")
     /\ given.swapchain_support.capabilities.current_extent = Extent2D(U32_MAX, U32_MAX))
    => /\ ~IsPanic(result.value)
       /\ LET c == given.swapchain_support.capabilities
              e == result.value.image_extent
          IN /\ c.min_image_extent.width <= e.width /\ e.width <= c.max_image_extent.width
             /\ c.min_image_extent.height <= e.height /\ e.height <= c.max_image_extent.height

\* C20: create_swapchain declares CONCURRENT sharing with both queue family
\* indices exactly when the graphics and the present family differ, and
\* EXCLUSIVE sharing when they are equal.
C20_SharingMode ==
    (Applied("create_swapchain") /\ ~IsPanic(result.value))
    => /\ result.value.image_sharing_mode \in {CONCURRENT, EXCLUSIVE}
       /\ result.value.image_sharing_mode = CONCURRENT
          <=> given.indices.graphics_family # given.indices.present_family
       /\ result.value.image_sharing_mode = CONCURRENT
          => result.value.queue_family_indices
                 = <<given.indices.graphics_family, given.indices.present_family>>

C20_Witness ==
    /\ Applied("create_swapchain")
    /\ given.indices = QueueFamilyIndice(0, 1)
    /\ ~IsPanic(result.value)
    /\ result.value.image_sharing_mode = CONCURRENT
    /\ result.value.queue_family_indices = <<0, 1>>

\* C21: if any step of Application::create fails, construction is aborted
\* with that error and every object created by the earlier steps has been
\* destroyed by the time the error is returned.
C21_AsStated ==
    (Applied("create") /\ Failed(result.value)) => result.value.live = {}

\* position of the first call of that name in a trace, 0 when there is none
Index(t, name) ==
    IF \E i \in DOMAIN t : t[i] = name
    THEN CHOOSE i \in DOMAIN t : t[i] = name /\ \A j \in 1 .. (i - 1) : t[j] # name
    ELSE 0

\* b is not in the trace unless a is there before it
Precedes(t, a, b) == Index(t, b) # 0 => (Index(t, a) # 0 /\ Index(t, a) < Index(t, b))

\* the commands the device has executed on the texture image, with the layout
\* each of them found
OnTexture(c) ==
    SelectSeq(c.executed, LAMBDA x : x.command.dst = <<"texture_image", 0>>)

TextureUpload ==
    LET image == <<"texture_image", 0>>
    IN <<[command |-> Command("pipeline_barrier", image, image, UNDEFINED,
                              TRANSFER_DST_OPTIMAL, TOP_OF_PIPE, TRANSFER),
          layout |-> UNDEFINED, read |-> "none"],
         [command |-> Command("copy_buffer_to_image", <<"texture_staging", 0>>, image,
                              TRANSFER_DST_OPTIMAL, TRANSFER_DST_OPTIMAL, "none", "none"),
          layout |-> TRANSFER_DST_OPTIMAL, read |-> "texture"],
         [command |-> Command("pipeline_barrier", image, image, TRANSFER_DST_OPTIMAL,
                              SHADER_READ_ONLY_OPTIMAL, TRANSFER, FRAGMENT_SHADER),
          layout |-> TRANSFER_DST_OPTIMAL, read |-> "none"]>>

\* create_texture_image has returned Ok
TextureCreated(c) == Index(c.trace, "free_memory:texture_staging") # 0

\* C28: the texture upload drives the image through UNDEFINED, then
\* TRANSFER_DST_OPTIMAL, then SHADER_READ_ONLY_OPTIMAL: the device executes the
\* barrier TOP_OF_PIPE -> TRANSFER, the copy and the barrier TRANSFER ->
\* FRAGMENT_SHADER in that order, each finding the image in the layout it
\* names; the copy is submitted only after the first barrier has completed
\* and the second barrier only after the copy has completed; the image is in
\* SHADER_READ_ONLY_OPTIMAL once create_texture_image has returned Ok.
C28_TextureUpload ==
    Applied("create") =>
        LET c == result.value
        IN /\ IsPrefix(OnTexture(c), TextureUpload)
           /\ Precedes(c.trace, "device:pipeline_barrier:TRANSFER_DST_OPTIMAL",
                       "queue_submit:copy_buffer_to_image:texture_staging")
           /\ Precedes(c.trace, "device:copy_buffer_to_image:texture_staging",
                       "queue_submit:pipeline_barrier:SHADER_READ_ONLY_OPTIMAL")
           /\ TextureCreated(c) =>
                  /\ OnTexture(c) = TextureUpload
                  /\ c.layout = SHADER_READ_ONLY_OPTIMAL
                  /\ c.contents[<<"texture_image", 0>>] = "texture"

\* the device runs a submission only when the host waits, and the texture is
\* uploaded
C28_Witness ==
    /\ Applied("create")
    /\ ~given.in.eager
    /\ ~Failed(result.value)
    /\ result.value.layout = SHADER_READ_ONLY_OPTIMAL
    /\ Len(OnTexture(result.value)) = 3

\* the uploads of create_buffer_with_data: staging buffer, buffer, data
StaticGeometry ==
    {<<<<"vertex_staging", 0>>, <<"vertex_buffer", 0>>, "VERTICES">>,
     <<<<"index_staging", 0>>, <<"index_buffer", 0>>, "INDICES">>}

\* the one-shot command buffer is not freed between the submission of the
\* command named tag and its completion
FreedAfterCompletion(t, tag) ==
    LET s == Index(t, "queue_submit:" \o tag)
    IN s # 0 =>
          \A j \in DOMAIN t :
              (j > s /\ t[j] = "free_command_buffers:one_shot") =>
                  \E k \in (s + 1) .. (j - 1) : t[k] = "device:" \o tag

\* b is not in the trace unless a is there before it and the host has waited
\* for the queue in between
WaitsBetween(t, a, b) ==
    Index(t, b) # 0 =>
        /\ Index(t, a) # 0
        /\ \E k \in (Index(t, a) + 1) .. (Index(t, b) - 1) : t[k] = "queue_wait_idle"

\* C29: in create_buffer_with_data the staging buffer is filled with the
\* caller's data before the copy is submitted, the host waits for the copy to
\* complete on the device, the staging buffer and its memory are freed only
\* after that completion, and the one-shot command buffer is freed only after
\* the queue is idle.
C29_StagedUpload ==
    Applied("create") =>
        LET c == result.value
            t == c.trace
        IN \A u \in StaticGeometry :
             LET staging == u[1][1]
                 copy == "copy_buffer:" \o staging
             IN /\ Precedes(t, "unmap_memory:" \o staging, "queue_submit:" \o copy)
                /\ \A x \in Elements(c.executed) :
                       x.command.src = u[1] => (x.command.dst = u[2] /\ x.read = u[3])
                /\ WaitsBetween(t, "queue_submit:" \o copy, "destroy_buffer:" \o staging)
                /\ Precedes(t, "device:" \o copy, "destroy_buffer:" \o staging)
                /\ Precedes(t, "device:" \o copy, "free_memory:" \o staging)
                /\ FreedAfterCompletion(t, copy)
                /\ Index(t, "free_memory:" \o staging) # 0 => c.contents[u[2]] = u[3]

\* the device runs the copies only when the host waits, and both uploads are done
C29_Witness ==
    /\ Applied("create")
    /\ ~given.in.eager
    /\ \A u \in StaticGeometry :
           /\ result.value.contents[u[2]] = u[3]
           /\ Memory(u[1]) \notin result.value.live

\* the cycle of the last draw_frame call presented an image and did not
\* recreate the swapchain
PresentedWithoutRecreation ==
    /\ last.op = "draw_frame"
    /\ last.in.present \in {SUCCESS, SUBOPTIMAL_KHR}
    /\ ~Called("device_wait_idle")

\* C22: current_frame always lies in 0 .. MAX_FRAMES_IN_FLIGHT - 1; a
\* draw_frame cycle that presents without recreation sets it to
\* (current_frame + 1) mod MAX_FRAMES_IN_FLIGHT; every other outcome of
\* draw_frame and every request_resize or recreate_swapchain call leaves it
\* unchanged.
C22_FrameIndex ==
    /\ current_frame \in 0 .. (MAX_FRAMES_IN_FLIGHT - 1)
    /\ last.op = "draw_frame" =>
           current_frame = IF PresentedWithoutRecreation
                           THEN (last.frame + 1) % MAX_FRAMES_IN_FLIGHT
                           ELSE last.frame
    /\ last.op \in {"request_resize", "recreate_swapchain"} => current_frame = last.frame

\* the index has wrapped around: a cycle of the last slot presented
C22_Witness ==
    /\ PresentedWithoutRecreation
    /\ last.frame = MAX_FRAMES_IN_FLIGHT - 1
    /\ current_frame = 0

Count(t, name) == Cardinality({i \in DOMAIN t : t[i] = name})

\* the calls that create and that destroy the per-slot command buffers,
\* semaphores and fences (command buffers are freed with their pool)
PerSlotCreation ==
    {"allocate_command_buffers", "create_semaphore:image_avaible",
     "create_semaphore:render_done", "create_fence"}

PerSlotDestruction ==
    {"free_command_buffers", "destroy_command_pool", "destroy_semaphore:image_avaible",
     "destroy_semaphore:render_done", "destroy_fence"}

\* C23: the per-slot command buffers, semaphores and fences are created once,
\* in Application::create; no draw_frame, request_resize or recreate_swapchain
\* call creates or destroys any of them; cleanup destroys them.
C23_PerSlotLifecycle ==
    /\ last.op = "create" =>
           /\ Count(trace, "allocate_command_buffers") = 1
           /\ \A name \in PerSlotCreation \ {"allocate_command_buffers"} :
                  Count(trace, name) = MAX_FRAMES_IN_FLIGHT
           /\ \A name \in PerSlotDestruction : ~Called(name)
    /\ last.op \in {"draw_frame", "request_resize", "recreate_swapchain"} =>
           \A name \in PerSlotCreation \cup PerSlotDestruction : ~Called(name)
    /\ (last.op = "cleanup" /\ last.ret = Ok) =>
           /\ \A name \in PerSlotCreation : ~Called(name)
           /\ Count(trace, "destroy_command_pool") = 1
           /\ \A name \in PerSlotDestruction \ {"free_command_buffers", "destroy_command_pool"} :
                  Count(trace, name) = MAX_FRAMES_IN_FLIGHT

\* the swapchain was recreated, and cleanup then destroyed the per-slot objects
C23_Witness ==
    /\ last.op = "cleanup"
    /\ last.ret = Ok
    /\ recreate_log # <<>>
    /\ Count(trace, "destroy_fence") = MAX_FRAMES_IN_FLIGHT

\* the submissions made at that time, pending or executed since
SubmittedAt(queue, reads, cycle) ==
    {e \in Elements(queue) \cup {x.submission : x \in Elements(reads)} : e.cycle = cycle}

\* C24: a draw_frame cycle running with current_frame = k resets, signals,
\* records, submits and writes only slot k's fence, semaphores, command
\* buffer, uniform buffer and descriptor set: the uniform buffer of every
\* other slot is unchanged, the fence of another slot is not reset and the
\* semaphores of another slot get no signal operation.
C24_SlotOwnership ==
    [][(elapsed' # elapsed /\ last'.op = "draw_frame") =>
          LET k == current_frame
          IN /\ last'.frame = k
             /\ \A j \in Slots \ {k} :
                    /\ uniform_buffers'[j] = uniform_buffers[j]
                    /\ in_flight_fences[j] => in_flight_fences'[j]
                    /\ \A sem \in {image_avaible(j), render_done(j)} :
                           semaphores'[sem] \in {semaphores[sem], Unsignaled}
             /\ \A e \in SubmittedAt(graphics_queue', device_reads', elapsed') :
                    /\ e.slot = k
                    /\ e.fence = k
                    /\ e.command_buffer = k
                    /\ e.descriptor_set = k
                    /\ e.wait_semaphore = image_avaible(k)
                    /\ e.signal_semaphore = render_done(k)
                    /\ e.present_wait = render_done(k)]_vars

\* a cycle of slot 1 has submitted while the submission of slot 0 is pending
C24_Witness ==
    /\ last.op = "draw_frame"
    /\ last.frame = 1
    /\ Len(graphics_queue) = 2
    /\ graphics_queue[1].slot = 0
    /\ graphics_queue[2].slot = 1
    /\ ~in_flight_fences[0]

\* C25: in every cycle the device writes the color attachment only after the
\* slot's image_avaible semaphore has been signaled by the acquire of that
\* cycle (the submission waits for it at COLOR_ATTACHMENT_OUTPUT), and the
\* image is presented only after the slot's render_done semaphore has been
\* signaled by the completion of that cycle's submission.
C25_SemaphoreOrder ==
    /\ \A x \in Elements(device_reads) :
           /\ x.submission.wait_semaphore = image_avaible(x.slot)
           /\ x.submission.wait_dst_stage_mask = COLOR_ATTACHMENT_OUTPUT
           /\ x.after = SignaledBy("acquire", x.cycle)
           /\ x.submission.present_wait = x.submission.signal_semaphore
           /\ x.presented_after = SignaledBy("submit", x.cycle)
    /\ \A e \in Elements(graphics_queue) :
           /\ semaphores[e.wait_semaphore] = SignaledBy("acquire", e.cycle)
           /\ semaphores[e.present_wait] = SignaledBy("submit", e.cycle)

\* the device has executed the submissions of both slots at once, each after
\* its own acquire
C25_Witness ==
    /\ Len(device_reads) = 2
    /\ device_reads[1].slot # device_reads[2].slot
    /\ \A i \in DOMAIN device_reads :
           device_reads[i].after = SignaledBy("acquire", device_reads[i].cycle)

\* C30: for every slot i, descriptor set i has binding 0 pointing at uniform
\* buffer i and binding 1 at the one texture view and sampler, all written by
\* one update_descriptor_sets call of Application::create; the set bound in
\* slot i's command buffer is descriptor set i, so the draw reads uniform
\* buffer i.
C30_DescriptorSets ==
    /\ \A i \in Slots :
           /\ descriptor_sets[i][0] =
                  [NoResource EXCEPT !.descriptor_type = "UNIFORM_BUFFER",
                                     !.buffer = <<"uniform_buffer", i>>]
           /\ descriptor_sets[i][1] =
                  [NoResource EXCEPT !.descriptor_type = "COMBINED_IMAGE_SAMPLER",
                                     !.image_layout = SHADER_READ_ONLY_OPTIMAL,
                                     !.image_view = "texture_image_view",
                                     !.sampler = "texture_sampler"]
    /\ last.op = "create" => Count(trace, "update_descriptor_sets") = 1
    /\ \A e \in Elements(graphics_queue) : e.descriptor_set = e.command_buffer
    /\ \A x \in Elements(device_reads) :
           /\ x.submission.descriptor_set = x.slot
           /\ x.got = [time |-> x.cycle, extent |-> x.got.extent]

\* the device has executed a draw of slot 1, which read uniform buffer 1
C30_Witness ==
    /\ \E x \in Elements(device_reads) : x.slot = 1 /\ x.got.time = x.cycle
    /\ graphics_queue = <<>>

\* the families of the given device that have the graphics flag, and those
\* that can present to the surface
GraphicsFamilies(device) ==
    {i \in 0 .. Len(device.queue_families) - 1 : device.queue_families[i + 1].graphics}

PresentFamilies(device) ==
    {i \in 0 .. Len(device.queue_families) - 1 : device.queue_families[i + 1].present}

\* the first family by which a graphics family and a present family have
\* both been seen
BothSetAt(device) ==
    Least({j \in 0 .. Len(device.queue_families) - 1 :
              /\ \E g \in GraphicsFamilies(device) : g <= j
              /\ \E p \in PresentFamilies(device) : p <= j})

\* C26: find_queue_families returns a complete index pair exactly when some
\* family supports graphics and some family supports presentation; the
\* graphics index names a graphics family and the present index a present
\* family; no family is examined after both indices are set. The surface
\* support query is the one call that can fail, and then its error is
\* returned instead of a pair.
C26_QueueFamilies ==
    Applied("find_queue_families")
    => LET device == given.device
           G == GraphicsFamilies(device)
           P == PresentFamilies(device)
           r == result.value
       IN IF IsErr(device.surface_support_status) /\ device.queue_families # <<>>
          THEN r.ret = AppErrorFrom(device.surface_support_status)
          ELSE /\ r.ret.error_type = "Ok"
               /\ is_complete(r.ret.value) <=> (G # {} /\ P # {})
               /\ r.ret.value.graphics_family # NoFamily <=> G # {}
               /\ r.ret.value.present_family # NoFamily <=> P # {}
               /\ G # {} => r.ret.value.graphics_family \in G
               /\ P # {} => r.ret.value.present_family \in P
               /\ r.examined = IF G # {} /\ P # {} THEN BothSetAt(device) + 1
                                ELSE Len(device.queue_families)

\* a device whose first family does both: the second family is not examined
C26_Witness ==
    /\ Applied("find_queue_families")
    /\ Len(given.device.queue_families) = 2
    /\ given.device.queue_families[1] = Both
    /\ given.device.surface_support_status = SUCCESS
    /\ result.value.examined = 1
    /\ result.value.ret = OkOf(QueueFamilyIndice(0, 0))

\* C27: a device error raised while the queue families, the extensions or the
\* surface support of a physical device are queried during the selection is
\* returned by pick_physical_device with its status code. The devices the
\* selection queries are the enumerated ones up to the first that is found
\* suitable.
C27_AsStated ==
    (Applied("pick_physical_device") /\ given.enumerate_status = SUCCESS)
    => LET l == given.physical_devices
       IN \A i \in DOMAIN l :
              ((\A j \in 1 .. i - 1 : is_device_suitable(l[j]) = OkOf(None))
               /\ is_device_suitable(l[i]).error_type = "VulkanError")
              => result.value = is_device_suitable(l[i])


\* C31: in a run in which no device call returns an error code other than
\* out-of-date, the fence of every slot is signaled or is the fence of a
\* submission the device has not finished yet, so the fence wait at the start
\* of draw_frame returns: a fence that is not signaled becomes signaled
FencePending(k) == \E i \in DOMAIN graphics_queue : graphics_queue[i].fence = k

FenceAttached == \A k \in Slots : in_flight_fences[k] \/ FencePending(k)

C31_FenceWaitReturns ==
    /\ [](statuses \cap ErrorCodes = {} => FenceAttached)
    /\ \A k \in Slots : (~in_flight_fences[k]) ~> in_flight_fences[k]

C31_Witness ==
    /\ phase = "running"
    /\ last.op = "draw_frame"
    /\ draws >= MAX_FRAMES_IN_FLIGHT
    /\ ~in_flight_fences[current_frame]
    /\ FencePending(current_frame)


\* C32 as stated: after every return of draw_frame, error returns included, the
\* fence of the slot the call ran on is signaled or is the fence of a
\* submission the device has not finished
C32_AsStated ==
    (last.op = "draw_frame") => (in_flight_fences[last.frame] \/ FencePending(last.frame))


\* C33 as stated: when recreate_swapchain has returned an error, the swapchain
\* and the framebuffers the Application holds have not been destroyed
C33_AsStated ==
    (last.in.recreate # NoRecreate /\ last.ret # Ok)
        => /\ swapchain.id \in live_swapchains
           /\ Handles(swapchain_frame_buffers) \subseteq live_framebuffers


\* the recreation draw_frame made in its last call, if the last call is a
\* draw_frame that called recreate_swapchain
RecreatedBy(stage) ==
    /\ last.op = "draw_frame"
    /\ recreate_log # <<>>
    /\ recreate_log[Len(recreate_log)].at = last.at
    /\ recreate_log[Len(recreate_log)].stage = stage

\* C34 as stated: resize_flag is false after every swapchain recreation made by
\* draw_frame, at acquire or in the present step
C34_AsStated == (RecreatedBy("acquire") \/ RecreatedBy("present")) => ~resize_flag

\* C34 (amended): resize_flag is false after every recreation draw_frame makes
\* in its present step; a recreation made at acquire leaves resize_flag as it
\* was, so a request pending then is served again in a later present step
C34_FlagAfterRecreation ==
    /\ RecreatedBy("present") => ~resize_flag
    /\ RecreatedBy("acquire") => resize_flag = last.flag

\* a recreation at acquire with a pending request, then one in the present step
C34_Witness ==
    /\ RecreatedBy("present")
    /\ recreate_log[Len(recreate_log)].done
    /\ Len(recreate_log) = 2
    /\ recreate_log[1].stage = "acquire"
    /\ recreate_log[1].flag
    /\ recreate_log[1].done
    /\ Len(resize_log) = 1
    /\ ~resize_flag


\* the objects Application::create returns one list of, indexed by current_frame
PerSlotLists ==
    {"command_buffer", "buffer:uniform_buffer", "descriptor_set", "semaphore:image_avaible",
     "semaphore:render_done", "fence"}

Holding(kind) == {o \in Returned[vlayers].live : o[1] = kind}

EveryRecreationDone == \A i \in DOMAIN recreate_log : recreate_log[i].done

\* C35: the command buffers, uniform buffers, descriptor sets, both semaphore
\* lists and the fences created by Application::create are one per slot
\* 0 .. MAX_FRAMES_IN_FLIGHT - 1, no later call changes the lists the frame
\* cycle indexes by current_frame, and while every recreation has succeeded
\* the framebuffer list has one framebuffer per image view of the swapchain
C35_ListLengths ==
    /\ \A kind \in PerSlotLists : Holding(kind) = {<<kind, k>> : k \in Slots}
    /\ DOMAIN in_flight_fences = Slots
    /\ DOMAIN uniform_buffers = Slots
    /\ DOMAIN descriptor_sets = Slots
    /\ DOMAIN semaphores = Semaphores
    /\ Cardinality(Slots) = MAX_FRAMES_IN_FLIGHT
    /\ current_frame \in Slots
    /\ EveryRecreationDone =>
           /\ Len(swapchain_frame_buffers) = Len(swapchain.swapchain_image_views)
           /\ \A i \in DOMAIN swapchain_frame_buffers :
                  swapchain_frame_buffers[i] = <<"framebuffer", swapchain.id, i - 1>>

\* a recreation changed the number of images, and a cycle has drawn since
C35_Witness ==
    /\ last.op = "draw_frame"
    /\ last.ret = Ok
    /\ last.in.submit = SUCCESS
    /\ EveryRecreationDone
    /\ Len(recreate_log) = 1
    /\ recreate_log[1].at < last.at
    /\ recreate_log[1].before.extent # recreate_log[1].after.extent
    /\ Len(swapchain_frame_buffers) = image_count(SurfaceCapabilities(surface_extent)) + 1
    /\ current_frame = 1


\* the pending submissions that wait for a semaphore
Waiting(sem) == {i \in Pending : graphics_queue[i].wait_semaphore = sem}

\* C36: while no device call has returned an error code other than
\* out-of-date, a slot's image_avaible semaphore that an acquire has signaled
\* is waited for by exactly one pending submission and one that is not
\* signaled by none; draw_frame passes it to acquire_next_image only when it
\* is not signaled, also when the cycle before ended in a recreation and left
\* current_frame as it was
C36_ImageAvaibleSemaphore ==
    /\ [](statuses \cap ErrorCodes = {} =>
            \A k \in Slots :
                Cardinality(Waiting(image_avaible(k))) =
                    IF semaphores[image_avaible(k)] = Unsignaled THEN 0 ELSE 1)
    /\ [][(elapsed' # elapsed /\ last'.op = "draw_frame" /\ last'.in.acquire # NONE
           /\ statuses \cap ErrorCodes = {})
            => semaphores[image_avaible(current_frame)] = Unsignaled]_vars

\* a cycle of slot 0 ended in a recreation in its present step, and the next
\* cycle acquired with the semaphore of slot 0 again and submitted
C36_Witness ==
    /\ last.op = "draw_frame"
    /\ last.frame = 0
    /\ last.in.submit = SUCCESS
    /\ draws = 2
    /\ Len(recreate_log) >= 1
    /\ recreate_log[1].stage = "present"
    /\ recreate_log[1].draw = 1
    /\ recreate_log[1].done
    /\ semaphores[image_avaible(0)] = SignaledBy("acquire", last.at)
    /\ Cardinality(Waiting(image_avaible(0))) = 1


\* C37 as stated: no pending submission signals a render_done semaphore that a
\* presentation request of an earlier cycle still has to wait for
C37_AsStated ==
    \A i \in DOMAIN present_requests : \A j \in DOMAIN graphics_queue :
        graphics_queue[j].signal_semaphore # present_requests[i].wait_semaphore


\* every call of the one kind is made, and before every call of the other
Before(first, second) ==
    /\ Called(first)
    /\ Called(second)
    /\ \A i, j \in DOMAIN trace : (trace[i] = first /\ trace[j] = second) => i < j

\* the objects that are not children of the logical device, and the device
InstanceLevel ==
    {"destroy_device", "destroy_debug_utils_messenger", "destroy_surface", "destroy_instance"}

\* C38: cleanup calls device_wait_idle first and destroys nothing when the
\* wait fails; otherwise it destroys the framebuffers before the swapchain
\* image views before the swapchain, the texture view before the texture
\* image and its memory, the descriptor pool and the pipeline before their
\* layouts, every object of the device before the device, and the surface and
\* the device before the instance, which comes last
C38_CleanupDependencies ==
    /\ (last.op = "cleanup" /\ last.ret # Ok) => trace = <<"device_wait_idle">>
    /\ CleanupReturned =>
          /\ trace[1] = "device_wait_idle"
          /\ Count(trace, "device_wait_idle") = 1
          /\ Before("destroy_framebuffer", "destroy_image_view:swapchain")
          /\ Before("destroy_image_view:swapchain", "destroy_swapchain")
          /\ Before("destroy_image_view:texture", "destroy_image:texture")
          /\ Before("destroy_image_view:texture", "free_memory:texture_image")
          /\ Before("destroy_descriptor_pool", "destroy_descriptor_set_layout")
          /\ Before("destroy_pipeline", "destroy_pipeline_layout")
          /\ \A name \in Elements(Tail(trace)) \ InstanceLevel : Before(name, "destroy_device")
          /\ Before("destroy_surface", "destroy_instance")
          /\ Before("destroy_device", "destroy_instance")
          /\ trace[Len(trace)] = "destroy_instance"
          /\ Count(trace, "destroy_instance") = 1

\* cleanup has waited for a pending submission and then destroyed everything
C38_Witness ==
    /\ CleanupReturned
    /\ ~vlayers
    /\ device_reads # <<>>
    /\ graphics_queue = <<>>
    /\ Called("free_memory:uniform_buffer")


C40_CurrentSwapchain ==
    /\ [](\A i \in Pending :
             /\ graphics_queue[i].framebuffer \in live_framebuffers
             /\ graphics_queue[i].swapchain \in live_swapchains)
    /\ [][(elapsed' # elapsed /\ last'.op = "draw_frame" /\ last'.in.submit = SUCCESS)
            => /\ SubmittedAt(graphics_queue', device_reads', elapsed') # {}
               /\ \A e \in SubmittedAt(graphics_queue', device_reads', elapsed') :
                     /\ e.framebuffer \in Handles(swapchain_frame_buffers)
                     /\ e.framebuffer \in live_framebuffers
                     /\ e.framebuffer[2] = swapchain.id
                     /\ e.render_area = swapchain.extent
                     /\ e.swapchain = swapchain.id
                     /\ e.swapchain \in live_swapchains]_vars

\* a cycle has drawn on the swapchain a recreation made for a new extent
C40_Witness ==
    /\ last.op = "draw_frame"
    /\ last.ret = Ok
    /\ recreate_log # <<>>
    /\ recreate_log[1].done
    /\ recreate_log[1].before.extent # recreate_log[1].after.extent
    /\ \E i \in Pending :
          /\ graphics_queue[i].cycle = last.at
          /\ graphics_queue[i].swapchain = swapchain.id
          /\ graphics_queue[i].swapchain # 1
          /\ graphics_queue[i].render_area = surface_extent

====
